-------------------------- MODULE GatewayOrdersProofs --------------------------
(***************************************************************************)
(* Proofs about the order path, for any commands, keys and bounds: types    *)
(* and rows that never move back; at most one broker call per idempotency   *)
(* key, never without a committed pre-ack; orders that stay visible.        *)
(***************************************************************************)
EXTENDS GatewayOrders, FiniteSetTheorems, TLAPS

-----------------------------------------------------------------------------
(* What the status and boundary rules of Core guarantee for single events *)

\* _resolve_state returns a state of the boundary and never one of lower rank,
\* in particular not for the UNCONFIRMED exception to the rank order.
LEMMA ResolveStateMonotone ==
  ASSUME NEW cur \in BoundaryStates \cup {"NONE"}, NEW prop \in BoundaryStates
  PROVE  /\ ResolveState(cur, prop) \in BoundaryStates
         /\ Rank(cur) <= Rank(ResolveState(cur, prop))
  BY DEF ResolveState, Rank, BoundaryStates

\* An upsert keeps the type of a row, its rank and its first timestamps.
LEMMA UpsertBoundaryMonotone ==
  ASSUME NEW b \in Boundaries, NEW prop \in BoundaryStates, NEW obs \in BOOLEAN
  PROVE  /\ UpsertBoundary(b, prop, obs) \in Boundaries
         /\ UpsertBoundary(b, prop, obs).state \in BoundaryStates
         /\ Rank(b.state) <= Rank(UpsertBoundary(b, prop, obs).state)
         /\ b.preAck => UpsertBoundary(b, prop, obs).preAck
         /\ b.started => UpsertBoundary(b, prop, obs).started
         /\ obs => UpsertBoundary(b, prop, obs).preAck
  <1>1. b.state \in BoundaryStates \cup {"NONE"} /\ b.started \in BOOLEAN /\ b.preAck \in BOOLEAN
    BY DEF Boundaries
  <1>2. /\ ResolveState(b.state, prop) \in BoundaryStates
        /\ Rank(b.state) <= Rank(ResolveState(b.state, prop))
    BY <1>1, ResolveStateMonotone
  <1>3. (b.started \/ (Rank(prop) >= 20 /\ prop # "UNCONFIRMED")) \in BOOLEAN
    BY <1>1
  <1> QED BY <1>1, <1>2, <1>3 DEF UpsertBoundary, Boundaries

-----------------------------------------------------------------------------
(* Types, and rows that never move back *)

LEMMA EventOfType ==
  ASSUME TypeOK, NEW c \in Commands, NEW type \in EventTypes
  PROVE  EventOf(type, c) \in Events
  BY DEF EventOf, Event, Events, TypeOK

\* What the handling of one event does to the two rows of its command.
LEMMA RecordEffect ==
  ASSUME TypeOK, NEW e \in Events, Record(e)
  PROVE  /\ status' \in [Commands -> Statuses \cup {"NONE"}]
         /\ boundary' \in [Commands -> Boundaries]
         /\ seen' \subseteq Events
         /\ \A c \in Commands :
              /\ Rank(boundary[c].state) <= Rank(boundary'[c].state)
              /\ boundary[c].preAck => boundary'[c].preAck
              /\ boundary[c].started => boundary'[c].started
  <1> DEFINE b == BoundaryAfterEvent(boundary[e.cmd], e.type)
  <1>1. e.cmd \in Commands /\ e.type \in EventTypes /\ boundary[e.cmd] \in Boundaries
    BY DEF Events, TypeOK
  <1>2. \A x \in Boundaries : Rank(x.state) <= Rank(x.state)
    BY DEF Rank
  <1>3. /\ b \in Boundaries
        /\ Rank(boundary[e.cmd].state) <= Rank(b.state)
        /\ boundary[e.cmd].preAck => b.preAck
        /\ boundary[e.cmd].started => b.started
    <2>1. CASE StateForEvent(e.type) = "NONE"
      BY <1>1, <1>2, <2>1 DEF BoundaryAfterEvent
    <2>2. CASE StateForEvent(e.type) # "NONE"
      <3>1. StateForEvent(e.type) \in BoundaryStates
        BY <1>1, <2>2 DEF StateForEvent, BoundaryStates
      <3>2. PreAckEvent(e.type) \in BOOLEAN
        BY DEF PreAckEvent
      <3> QED BY <1>1, <2>2, <3>1, <3>2, UpsertBoundaryMonotone DEF BoundaryAfterEvent
    <2> QED BY <2>1, <2>2
  <1>4. StatusAfterEvent(status[e.cmd], e.type, b) \in Statuses \cup {"NONE"}
    <2>1. status[e.cmd] \in Statuses \cup {"NONE"} /\ b.state \in Statuses \cup {"NONE"}
      BY <1>1, <1>3 DEF TypeOK, Boundaries, Statuses
    <2> QED BY <2>1 DEF StatusAfterEvent, EffectiveOrderCommandStatus, Statuses, BoundaryStates
  <1>5. seen' \subseteq Events
    BY DEF Record, TypeOK
  <1>6. CASE IsDuplicate(e)
    BY <1>2, <1>5, <1>6 DEF Record, TypeOK
  <1>7. CASE ~IsDuplicate(e)
    <2>1. /\ boundary' = [boundary EXCEPT ![e.cmd] = b]
          /\ status' = [status EXCEPT ![e.cmd] = StatusAfterEvent(status[e.cmd], e.type, b)]
      BY <1>7 DEF Record
    <2> HIDE DEF b
    <2>2. boundary' \in [Commands -> Boundaries] /\ status' \in [Commands -> Statuses \cup {"NONE"}]
      BY <1>1, <1>3, <1>4, <2>1 DEF TypeOK
    <2>3. ASSUME NEW c \in Commands
          PROVE  /\ Rank(boundary[c].state) <= Rank(boundary'[c].state)
                 /\ boundary[c].preAck => boundary'[c].preAck
                 /\ boundary[c].started => boundary'[c].started
      <3>1. CASE c = e.cmd  BY <1>3, <2>1, <3>1 DEF TypeOK
      <3>2. CASE c # e.cmd  BY <1>2, <2>1, <3>2 DEF TypeOK
      <3> QED BY <3>1, <3>2
    <2> QED BY <1>5, <2>2, <2>3
  <1> QED BY <1>6, <1>7

\* Claiming and timing out commands only ever raises their rows.
LEMMA UpsertAllEffect ==
  ASSUME TypeOK, NEW S \in SUBSET Commands, NEW prop \in BoundaryStates,
         boundary' = [c \in Commands |-> IF c \in S THEN UpsertBoundary(boundary[c], prop, FALSE)
                                         ELSE boundary[c]]
  PROVE  /\ boundary' \in [Commands -> Boundaries]
         /\ \A c \in Commands :
              /\ Rank(boundary[c].state) <= Rank(boundary'[c].state)
              /\ boundary[c].preAck => boundary'[c].preAck
              /\ boundary[c].started => boundary'[c].started
         /\ \A c \in Commands :
              /\ c \in S => boundary'[c].state \in BoundaryStates
              /\ c \notin S => boundary'[c] = boundary[c]
  <1>1. ASSUME NEW c \in Commands
        PROVE  /\ boundary'[c] \in Boundaries
               /\ Rank(boundary[c].state) <= Rank(boundary'[c].state)
               /\ boundary[c].preAck => boundary'[c].preAck
               /\ boundary[c].started => boundary'[c].started
               /\ c \in S => boundary'[c].state \in BoundaryStates
               /\ c \notin S => boundary'[c] = boundary[c]
    <2>1. boundary[c] \in Boundaries
      BY DEF TypeOK
    <2>2. CASE c \in S
      <3>1. boundary'[c] = UpsertBoundary(boundary[c], prop, FALSE)
        BY <2>2
      <3> QED BY <2>1, <2>2, <3>1, UpsertBoundaryMonotone
    <2>3. CASE c \notin S
      <3>1. boundary'[c] = boundary[c]
        BY <2>3
      <3>2. Rank(boundary[c].state) <= Rank(boundary[c].state)
        BY DEF Rank
      <3> QED BY <2>1, <2>3, <3>1, <3>2
    <2> QED BY <2>2, <2>3
  <1>2. boundary' \in [Commands -> Boundaries]
    BY <1>1
  <1> QED BY <1>1, <1>2

LEMMA ArrangementType ==
  ASSUME NEW S, IsFiniteSet(S), NEW T, S \subseteq T, NEW order \in Arrangements(S)
  PROVE  order \in Seq(T) /\ Len(order) = Cardinality(S) /\ Cardinality(S) \in Nat
  <1>1. Cardinality(S) \in Nat
    BY FS_CardinalityType
  <1>2. order \in [1 .. Cardinality(S) -> T]
    BY DEF Arrangements
  <1> QED BY <1>1, <1>2

LEMMA InitType == Init => TypeOK
  BY ConstantsAssumption DEF Init, TypeOK, NoBoundary, Boundaries, Idle, Hands, Stages, Results,
     JournalStatuses, BoundaryStates

\* One step of any party keeps the types and never moves a boundary row back.
LEMMA NextType ==
  ASSUME TypeOK, [Next]_vars
  PROVE  /\ TypeOK'
         /\ \A c \in Commands :
              /\ Rank(boundary[c].state) <= Rank(boundary'[c].state)
              /\ boundary[c].preAck => boundary'[c].preAck
              /\ boundary[c].started => boundary'[c].started
  <1> DEFINE Kept == \A c \in Commands :
                       /\ Rank(boundary[c].state) <= Rank(boundary'[c].state)
                       /\ boundary[c].preAck => boundary'[c].preAck
                       /\ boundary[c].started => boundary'[c].started
  <1> USE ConstantsAssumption
  <1>a. UNCHANGED boundary => Kept
    BY DEF Rank
  <1> HIDE DEF Kept
  <1>1. ASSUME NEW c \in Commands, EnqueueCommand(c)
        PROVE  TypeOK' /\ Kept
    BY <1>1, <1>a DEF EnqueueCommand, TypeOK, Statuses, wireVars, gatewayVars, durableVars, brokerVars
  <1>2. ASSUME NEW c \in Commands, PassExpiry(c)
        PROVE  TypeOK' /\ Kept
    BY <1>2, <1>a DEF PassExpiry, TypeOK, wireVars, gatewayVars, durableVars, brokerVars
  <1>3. ASSUME NEW S \in SUBSET Commands, ExpireStaleGatewayCommands(S)
        PROVE  TypeOK' /\ Kept
    <2>1. boundary' \in [Commands -> Boundaries] /\ Kept
      BY <1>3, UpsertAllEffect DEF ExpireStaleGatewayCommands, BoundaryStates, Kept
    <2>2. status' \in [Commands -> Statuses \cup {"NONE"}]
      BY <1>3 DEF ExpireStaleGatewayCommands, TypeOK, Statuses, BoundaryStates
    <2> QED BY <1>3, <2>1, <2>2 DEF ExpireStaleGatewayCommands, TypeOK, wireVars, gatewayVars,
                                    durableVars, brokerVars
  <1>4. ASSUME NEW S \in SUBSET Commands, DispatchReadyCommands(S)
        PROVE  TypeOK' /\ Kept
    <2>1. boundary' \in [Commands -> Boundaries] /\ Kept
      BY <1>4, UpsertAllEffect DEF DispatchReadyCommands, BoundaryStates, Kept
    <2>2. status' \in [Commands -> Statuses \cup {"NONE"}] /\ attempts' \in [Commands -> Nat]
      BY <1>4 DEF DispatchReadyCommands, TypeOK, Statuses, BoundaryStates
    <2> QED BY <1>4, <2>1, <2>2 DEF DispatchReadyCommands, TypeOK, gatewayVars, durableVars, brokerVars
  <1>5. ASSUME NEW order \in Arrangements(response), DeliverResponse(order)
        PROVE  TypeOK' /\ Kept
    <2>1. IsFiniteSet(response)
      BY FS_Subset DEF TypeOK
    <2>2. order \in Seq(Commands)
      BY <2>1, ArrangementType DEF TypeOK
    <2> QED BY <1>5, <1>a, <2>2 DEF DeliverResponse, TypeOK, coreVars, durableVars, brokerVars
  <1>6. ASSUME LoseResponse
        PROVE  TypeOK' /\ Kept
    BY <1>6, <1>a DEF LoseResponse, TypeOK, gatewayVars, coreVars, durableVars, brokerVars
  <1>7. ASSUME NEW e \in latePreAck, CommitLatePreAck(e)
        PROVE  TypeOK' /\ Kept
    <2>1. e \in Events /\ Record(e)
      BY <1>7 DEF CommitLatePreAck, TypeOK
    <2> QED BY <1>7, <2>1, RecordEffect DEF CommitLatePreAck, TypeOK, Kept, gatewayVars, durableVars, brokerVars
  <1>8. ASSUME NEW answered \in BOOLEAN, PostEvent(answered)
        PROVE  TypeOK' /\ Kept
    <2>1. Head(outbox) \in Events /\ Tail(outbox) \in Seq(Events) /\ Record(Head(outbox))
      BY <1>8 DEF PostEvent, TypeOK
    <2>2. outbox' \in Seq(Events)
      BY <1>8, <2>1 DEF PostEvent, TypeOK
    <2> QED BY <1>8, <2>1, <2>2, RecordEffect DEF PostEvent, TypeOK, Kept, wireVars, durableVars, brokerVars
  <1>9. ASSUME NEW c \in Commands, HandlerStep(c)
        PROVE  TypeOK' /\ Kept
    <2> DEFINE ev(type) == EventOf(type, c)
    <2>0. /\ \A type \in EventTypes : EventOf(type, c) \in Events
          /\ "command_started" \in EventTypes /\ "rate_limited" \in EventTypes
          /\ "order_pre_ack" \in EventTypes /\ "command_failed" \in EventTypes
          /\ "command_ack" \in EventTypes /\ "order_broker_unconfirmed" \in EventTypes
          /\ "chejan" \in EventTypes
      BY EventOfType DEF EventTypes
    <2>h. /\ Idle \in Hands
          /\ \A stage \in Stages : At(c, stage) \in Hands
          /\ \A r \in Results : [cmd |-> c, stage |-> "called", result |-> r] \in Hands
      BY DEF Idle, At, Hands, Stages, Results
    <2>t. inbox # <<>> => Tail(inbox) \in Seq(Commands)
      BY DEF TypeOK
    <2>1. CASE RefuseCommand(c)
      BY <2>1, <2>0, <2>h, <2>t, <1>a DEF RefuseCommand, TakeCommand, Finish, Emit, TypeOK, coreVars,
         wireVars, durableVars, brokerVars
    <2>2. CASE RateLimitCommand(c)
      BY <2>2, <2>0, <2>h, <2>t, <1>a DEF RateLimitCommand, TakeCommand, TypeOK, coreVars,
         wireVars, durableVars, brokerVars
    <2>3. CASE StartCommand(c)
      BY <2>3, <2>0, <2>h, <2>t, <1>a DEF StartCommand, TakeCommand, Emit, TypeOK, coreVars,
         wireVars, durableVars, brokerVars, Stages
    <2>4. CASE JournalPreAck(c)
      BY <2>4, <2>h, <1>a DEF JournalPreAck, TypeOK, coreVars, wireVars, brokerVars, Stages, JournalStatuses
    <2>5. CASE JournalPreAckFails(c)
      BY <2>5, <2>0, <2>h, <1>a DEF JournalPreAckFails, Finish, Emit, TypeOK, coreVars, wireVars, brokerVars
    <2>6. CASE PreAckConfirmed(c)
      BY <2>6, <2>0, <2>h, RecordEffect DEF PreAckConfirmed, Kept, TypeOK, wireVars, durableVars,
         brokerVars, Stages
    <2>7. ASSUME NEW fate \in {"lost", "committed", "late"}, NEW written \in BOOLEAN,
                 PreAckUnanswered(c, fate, written)
          PROVE  TypeOK' /\ Kept
      <3>1. /\ status' \in [Commands -> Statuses \cup {"NONE"}]
            /\ boundary' \in [Commands -> Boundaries]
            /\ seen' \subseteq Events
            /\ latePreAck' \subseteq {e \in Events : e.type = "order_pre_ack"}
            /\ Kept
        <4>0. EventOf("order_pre_ack", c) \in {e \in Events : e.type = "order_pre_ack"}
          BY <2>0 DEF EventOf, Event
        <4>1. CASE /\ UNCHANGED <<status, boundary, seen>>
                   /\ latePreAck' \subseteq {e \in Events : e.type = "order_pre_ack"}
          BY <4>1, <1>a DEF TypeOK
        <4>2. CASE Record(EventOf("order_pre_ack", c)) /\ UNCHANGED latePreAck
          BY <4>2, <2>0, RecordEffect DEF TypeOK, Kept
        <4> QED BY <2>7, <4>0, <4>1, <4>2 DEF PreAckUnanswered, TypeOK
      <3>2. journal' \in [Commands -> JournalStatuses] /\ faults' \in 0 .. MaxJournalFaults
        BY <2>7 DEF PreAckUnanswered, TypeOK, JournalStatuses
      <3> QED BY <2>7, <2>0, <2>h, <3>1, <3>2 DEF PreAckUnanswered, Finish, Emit, TypeOK, brokerVars
    <2>8. ASSUME NEW result \in {"ok", "refused", "raised"}, NEW accepts \in BOOLEAN,
                 BrokerCall(c, result, accepts)
          PROVE  TypeOK' /\ Kept
      BY <2>8, <2>h, <1>a DEF BrokerCall, TypeOK, coreVars, wireVars, durableVars, Results
    <2>9. CASE ReportResult(c)
      BY <2>9, <2>0, <2>h, <1>a DEF ReportResult, Finish, Emit, TypeOK, coreVars, wireVars, brokerVars,
         JournalStatuses
    <2>10. CASE ResultWriteFails(c)
      <3>1. hand' \in Hands
        BY <2>10, <2>h DEF ResultWriteFails, Results
      <3> QED BY <2>10, <3>1, <1>a DEF ResultWriteFails, TypeOK, coreVars, wireVars, brokerVars
    <2>11. CASE ReportUnconfirmed(c)
      BY <2>11, <2>0, <2>h, <1>a DEF ReportUnconfirmed, Finish, Emit, TypeOK, coreVars, wireVars, brokerVars,
         JournalStatuses
    <2>12. CASE UnconfirmedWriteFails(c)
      BY <2>12, <2>0, <2>h, <1>a DEF UnconfirmedWriteFails, Finish, Emit, TypeOK, coreVars, wireVars,
         brokerVars
    <2>13. CASE LinkedChejan(c)
      BY <2>13, <2>0, <1>a DEF LinkedChejan, Emit, TypeOK, coreVars, wireVars, durableVars, brokerVars
    <2> QED BY <1>9, <2>1, <2>2, <2>3, <2>4, <2>5, <2>6, <2>7, <2>8, <2>9, <2>10, <2>11, <2>12, <2>13
            DEF HandlerStep
  <1>10. ASSUME SessionDisconnected
         PROVE  TypeOK' /\ Kept
    <2>1. \A i \in 1 .. Len(inbox) : EventOf("command_failed", inbox[i]) \in Events
      BY EventOfType DEF TypeOK, EventTypes
    <2>2. [i \in 1 .. Len(inbox) |-> EventOf("command_failed", inbox[i])] \in Seq(Events)
      BY <2>1 DEF TypeOK
    <2> QED BY <1>10, <2>2, <1>a DEF SessionDisconnected, TypeOK, coreVars, wireVars, durableVars, brokerVars
  <1>11. ASSUME NEW order \in Arrangements(Replayed), NEW inTransit \in BOOLEAN,
                CrashAndRestart(order, inTransit)
         PROVE  TypeOK' /\ Kept
    <2>1. IsFiniteSet(Replayed)
      BY FS_Subset DEF Replayed
    <2>2. order \in Seq(Commands)
      BY <2>1, ArrangementType DEF Replayed
    <2>3. \A i \in 1 .. Len(order) : RecoveryEvent(order[i], crashes + 1) \in Events
      BY <2>2 DEF RecoveryEvent, Event, Events, EventTypes, TypeOK
    <2>4. outbox' \in Seq(Events)
      BY <1>11, <2>2, <2>3 DEF CrashAndRestart
    <2>5. latePreAck' \subseteq {e \in Events : e.type = "order_pre_ack"}
      <3>1. CASE inTransit
        <4>1. hand.cmd \in Commands
          BY <1>11, <3>1 DEF CrashAndRestart, TypeOK, Hands, Idle
        <4>2. EventOf("order_pre_ack", hand.cmd) \in {e \in Events : e.type = "order_pre_ack"}
          BY <4>1, EventOfType DEF EventOf, Event, EventTypes
        <4> QED BY <1>11, <4>2 DEF CrashAndRestart, TypeOK
      <3>2. CASE ~inTransit
        BY <1>11, <3>2 DEF CrashAndRestart, TypeOK
      <3> QED BY <3>1, <3>2
    <2>6. Idle \in Hands
      BY DEF Idle, Hands, Stages, Results
    <2> QED BY <1>11, <1>a, <2>4, <2>5, <2>6 DEF CrashAndRestart, TypeOK, coreVars, brokerVars
  <1>12. CASE UNCHANGED vars
    <2>1. TypeOK'
      BY <1>12 DEF vars, TypeOK
    <2> QED BY <1>12, <1>a, <2>1 DEF vars, Kept
  <1> QED BY <1>1, <1>2, <1>3, <1>4, <1>5, <1>6, <1>7, <1>8, <1>9, <1>10, <1>11, <1>12
          DEF Next, CoreStep, WireStep, GatewayStep, Kept

\* Every reachable state is well typed, for any number of commands and any bounds.
THEOREM TypeCorrect == Spec => []TypeOK
  <1>1. TypeOK /\ [Next]_vars => TypeOK'
    BY NextType
  <1> QED BY InitType, <1>1, PTL DEF Spec

\* No interleaving of events, late requests, timeouts, retries and restarts
\* moves a boundary row back or forgets its pre-ack.
THEOREM BoundaryMonotone == Spec => BoundaryNeverRegresses
  <1> DEFINE Kept == \A c \in Commands :
                       /\ Rank(boundary[c].state) <= Rank(boundary'[c].state)
                       /\ boundary[c].preAck => boundary'[c].preAck
                       /\ boundary[c].started => boundary'[c].started
  <1>1. TypeOK /\ [Next]_vars => [Kept]_vars
    BY NextType
  <1> HIDE DEF Kept
  <1>2. Spec => [][Kept]_vars
    BY TypeCorrect, <1>1, PTL DEF Spec
  <1> QED BY <1>2 DEF BoundaryNeverRegresses, Kept
-----------------------------------------------------------------------------
(***************************************************************************)
(* At most one broker call per idempotency key, and never one without a    *)
(* committed pre-ack.                                                       *)
(*                                                                         *)
(* The argument: the permission to call the broker for a command is in one *)
(* place at a time (SingleClaim) and a key is taken by the first claim,    *)
(* before anything about the command can reach Core (RowBeforeAnyTrace).   *)
(***************************************************************************)

IInv == TypeOK /\ SingleClaim /\ RowBeforeAnyTrace /\ OneRowPerKey /\ PreAckBeforeCall

-----------------------------------------------------------------------------
(* Sequences: where the elements of a changed queue come from *)

LEMMA AppendElements ==
  ASSUME NEW S, NEW s \in Seq(S), NEW e \in S
  PROVE  \A i \in 1 .. Len(Append(s, e)) :
           (i \in 1 .. Len(s) /\ Append(s, e)[i] = s[i]) \/ Append(s, e)[i] = e
  OBVIOUS

LEMMA TailElements ==
  ASSUME NEW S, NEW s \in Seq(S), s # <<>>
  PROVE  \A i \in 1 .. Len(Tail(s)) : i + 1 \in 1 .. Len(s) /\ Tail(s)[i] = s[i + 1]
  OBVIOUS

LEMMA ConcatElements ==
  ASSUME NEW S, NEW s \in Seq(S), NEW t \in Seq(S)
  PROVE  \A i \in 1 .. Len(s \o t) :
           \/ i \in 1 .. Len(s) /\ (s \o t)[i] = s[i]
           \/ i \notin 1 .. Len(s) /\ i - Len(s) \in 1 .. Len(t) /\ (s \o t)[i] = t[i - Len(s)]
  OBVIOUS

\* Every event in the queue after the step was there before or is one of New.
OutboxFrom(New) ==
  \A i \in 1 .. Len(outbox') :
    (\E j \in 1 .. Len(outbox) : outbox'[i] = outbox[j]) \/ outbox'[i] \in New

LEMMA OutboxUnchanged == UNCHANGED outbox => OutboxFrom({})
  BY DEF OutboxFrom

LEMMA OutboxAppended ==
  ASSUME TypeOK, NEW e \in Events, outbox' = Append(outbox, e)
  PROVE  OutboxFrom({e})
  BY AppendElements DEF OutboxFrom, TypeOK

LEMMA OutboxTail ==
  ASSUME TypeOK, outbox # <<>>, outbox' = Tail(outbox)
  PROVE  OutboxFrom({})
  BY TailElements DEF OutboxFrom, TypeOK

\* A step that adds no rate_limited event creates no pending re-queue.
LEMMA NoNewRequeue ==
  ASSUME RateLimitedCurrent, UNCHANGED attempts, seen \subseteq seen', NEW New, OutboxFrom(New),
         \A e \in New : e.type # "rate_limited"
  PROVE  RateLimitedCurrent' /\ \A c \in Commands : Unrequeued(c)' => Unrequeued(c)
  BY DEF RateLimitedCurrent, OutboxFrom, Unrequeued

-----------------------------------------------------------------------------
(* Steps that hand no permission on *)

\* What is left to show for SingleClaim when a step only gives permissions up.
LEMMA ClaimKept ==
  ASSUME IInv, InboxDistinct', RateLimitedCurrent', UNCHANGED calls, response' \subseteq response,
         \A c \in Commands : Unclaimed(c)' => Unclaimed(c),
         \A c \in Commands : InInbox(c)' => InInbox(c),
         \A c \in Commands : Unrequeued(c)' => Unrequeued(c),
         \/ hand' = Idle
         \/ hand'.cmd = hand.cmd /\ (hand'.stage = "called" <=> hand.stage = "called")
  PROVE  SingleClaim'
  BY ConstantsAssumption DEF IInv, SingleClaim, Idle

\* What is left to show for the rows when a step makes no row.
LEMMA RowsKept ==
  ASSUME IInv, \A c \in Commands : HasRow(c)' <=> HasRow(c), NEW New, OutboxFrom(New), TypeOK',
         \A e \in New : e \in Events /\ HasRow(e.cmd),
         \A c \in Commands : Traced(c)' => Traced(c) \/ HasRow(c),
         \A e \in latePreAck' : e \in latePreAck \/ HasRow(e.cmd)
  PROVE  RowBeforeAnyTrace' /\ OneRowPerKey'
  <1>1. \A c \in Commands : Traced(c)' => HasRow(c)'
    BY DEF IInv, RowBeforeAnyTrace
  <1>2. \A i \in 1 .. Len(outbox') : outbox'[i].cmd \in Commands
    <2>1. outbox' \in Seq(Events)
      BY DEF TypeOK
    <2>2. \A i \in 1 .. Len(outbox') : outbox'[i] \in Events
      BY <2>1
    <2> QED BY <2>2 DEF Events
  <1>3. \A i \in 1 .. Len(outbox) : HasRow(outbox[i].cmd)
    BY DEF IInv, RowBeforeAnyTrace
  <1>4. \A i \in 1 .. Len(outbox') : HasRow(outbox'[i].cmd)
    BY <1>3 DEF OutboxFrom
  <1>5. \A e \in latePreAck' : e.cmd \in Commands /\ HasRow(e.cmd)
    <2>1. latePreAck' \subseteq Events
      BY DEF TypeOK
    <2> QED BY <2>1 DEF IInv, RowBeforeAnyTrace, Events
  <1>8. (\A i \in 1 .. Len(outbox) : HasRow(outbox[i].cmd))'
    BY <1>2, <1>4 DEF HasRow
  <1>9. (\A e \in latePreAck : HasRow(e.cmd))'
    BY <1>5 DEF HasRow
  <1>10. OneRowPerKey'
    BY DEF IInv, OneRowPerKey
  <1> QED BY <1>1, <1>8, <1>9, <1>10 DEF RowBeforeAnyTrace

\* What is left to show for the pre-ack when a step makes no broker call.
LEMMA PreAckKept ==
  ASSUME IInv, [Next]_vars, UNCHANGED calls,
         \A c \in Commands : hand'.cmd = c /\ hand'.stage \in {"confirmed", "called"} =>
            (hand.cmd = c /\ hand.stage \in {"confirmed", "called"}) \/ boundary'[c].preAck
  PROVE  PreAckBeforeCall'
  BY NextType DEF IInv, PreAckBeforeCall

\* A recorded event leaves every row where it is, if its own command has one;
\* only an unrecorded rate_limited event puts a command back into the queue.
LEMMA RecordKeepsRows ==
  ASSUME IInv, NEW e \in Events, Record(e), HasRow(e.cmd)
  PROVE  /\ \A c \in Commands : HasRow(c)' <=> HasRow(c)
         /\ \A c \in Commands : c # e.cmd => status'[c] = status[c]
         /\ \A c \in Commands : Unclaimed(c)' =>
               Unclaimed(c) \/ (c = e.cmd /\ e.type = "rate_limited" /\ e \notin seen)
  <1> DEFINE b == BoundaryAfterEvent(boundary[e.cmd], e.type)
  <1>1. e.cmd \in Commands /\ e.type \in EventTypes /\ boundary[e.cmd] \in Boundaries
        /\ boundary[e.cmd].state \in BoundaryStates
    BY DEF IInv, TypeOK, Events, HasRow, Boundaries
  <1>2. b.state \in BoundaryStates
    <2>1. CASE StateForEvent(e.type) = "NONE"
      BY <1>1, <2>1 DEF BoundaryAfterEvent
    <2>2. CASE StateForEvent(e.type) # "NONE"
      <3>1. StateForEvent(e.type) \in BoundaryStates /\ PreAckEvent(e.type) \in BOOLEAN
        BY <1>1, <2>2 DEF StateForEvent, BoundaryStates, PreAckEvent
      <3> QED BY <1>1, <2>2, <3>1, UpsertBoundaryMonotone DEF BoundaryAfterEvent
    <2> QED BY <2>1, <2>2
  <1>3. CASE IsDuplicate(e)
    BY <1>3 DEF Record, HasRow, Unclaimed
  <1>4. CASE ~IsDuplicate(e)
    <2>1. /\ boundary' = [boundary EXCEPT ![e.cmd] = b]
          /\ status' = [status EXCEPT ![e.cmd] = StatusAfterEvent(status[e.cmd], e.type, b)]
      BY <1>4 DEF Record
    <2> HIDE DEF b
    <2>2. \A c \in Commands : HasRow(c)' <=> HasRow(c)
      <3>1. boundary'[e.cmd] = b /\ \A c \in Commands : c # e.cmd => boundary'[c] = boundary[c]
        BY <1>1, <2>1 DEF IInv, TypeOK
      <3>2. b.state # "NONE"
        BY <1>2 DEF BoundaryStates
      <3> QED BY <1>1, <3>1, <3>2 DEF HasRow
    <2>3. /\ status'[e.cmd] = StatusAfterEvent(status[e.cmd], e.type, b)
          /\ \A c \in Commands : c # e.cmd => status'[c] = status[c]
      BY <1>1, <2>1 DEF IInv, TypeOK
    <2>4. StatusAfterEvent(status[e.cmd], e.type, b) \in {"NONE", "QUEUED"} =>
            Unclaimed(e.cmd) \/ e.type = "rate_limited"
      BY <1>2 DEF StatusAfterEvent, EffectiveOrderCommandStatus, BoundaryStates, Unclaimed,
         Rank, TerminalStatuses
    <2> QED BY <1>1, <1>4, <2>2, <2>3, <2>4 DEF Unclaimed, IsDuplicate
  <1> QED BY <1>3, <1>4

\* A step that claims nothing, re-queues nothing and does not call the broker.
LEMMA QuietStep ==
  ASSUME IInv, [Next]_vars, UNCHANGED <<attempts, calls>>, seen \subseteq seen', response' \subseteq response,
         \A c \in Commands : HasRow(c)' <=> HasRow(c),
         \A c \in Commands : Unclaimed(c)' => Unclaimed(c),
         \A c \in Commands : status'[c] \in InFlight \/ c \in pending' \/ journal'[c] # "NONE"
                             => Traced(c) \/ HasRow(c),
         NEW New, OutboxFrom(New),
         \A e \in New : e \in Events /\ e.type # "rate_limited" /\ HasRow(e.cmd),
         \A e \in latePreAck' : e \in latePreAck \/ HasRow(e.cmd),
         InboxDistinct', \A c \in Commands : InInbox(c)' => InInbox(c),
         \/ hand' = Idle
         \/ /\ hand'.cmd = hand.cmd /\ (hand'.stage = "called" <=> hand.stage = "called")
            /\ hand'.stage = "confirmed" /\ hand'.cmd \in Commands =>
                 hand.stage = "confirmed" \/ boundary'[hand.cmd].preAck
  PROVE  IInv'
  <1>1. TypeOK'
    BY NextType DEF IInv
  <1>2. RateLimitedCurrent' /\ \A c \in Commands : Unrequeued(c)' => Unrequeued(c)
    BY NoNewRequeue DEF IInv, SingleClaim
  <1>3. SingleClaim'
    BY <1>2, ClaimKept
  <1>4. \A c \in Commands : Traced(c)' => Traced(c) \/ HasRow(c)
    BY ConstantsAssumption DEF Traced, Idle
  <1>5. RowBeforeAnyTrace' /\ OneRowPerKey'
    BY <1>1, <1>4, RowsKept
  <1>6. PreAckBeforeCall'
    BY PreAckKept, ConstantsAssumption DEF Idle
  <1> QED BY <1>1, <1>3, <1>5, <1>6 DEF IInv

LEMMA InitOnce == Init => IInv
  <1> SUFFICES ASSUME Init PROVE IInv
    OBVIOUS
  <1>1. TypeOK
    BY InitType
  <1>2. /\ Len(inbox) = 0 /\ Len(outbox) = 0 /\ response = {} /\ latePreAck = {} /\ pending = {}
        /\ hand.cmd \notin Commands
        /\ \A c \in Commands : /\ status[c] = "NONE" /\ boundary[c] = NoBoundary
                               /\ journal[c] = "NONE" /\ calls[c] = 0
    BY ConstantsAssumption DEF Init, Idle
  <1>3. SingleClaim
    BY <1>2 DEF SingleClaim, InboxDistinct, RateLimitedCurrent, InInbox, Unrequeued
  <1>4. \A c \in Commands : ~HasRow(c) /\ ~Traced(c)
    BY <1>2 DEF HasRow, NoBoundary, Traced, InInbox, InFlight
  <1>5. RowBeforeAnyTrace /\ OneRowPerKey
    BY <1>2, <1>4 DEF RowBeforeAnyTrace, OneRowPerKey
  <1>6. PreAckBeforeCall
    BY <1>2 DEF PreAckBeforeCall
  <1> QED BY <1>1, <1>3, <1>5, <1>6 DEF IInv

-----------------------------------------------------------------------------
(* Steps that move a permission *)

LEMMA EnqueueOnce ==
  ASSUME IInv, [Next]_vars, NEW c \in Commands, EnqueueCommand(c)
  PROVE  IInv'
  <1>1. /\ UNCHANGED <<attempts, boundary, seen, response, latePreAck, inbox, hand, outbox, pending, journal, calls>>
        /\ status[c] = "NONE" /\ status' = [status EXCEPT ![c] = "QUEUED"]
    BY DEF EnqueueCommand, wireVars, gatewayVars, durableVars, brokerVars
  <1>2. \A d \in Commands : Unclaimed(d)' <=> Unclaimed(d)
    BY <1>1 DEF Unclaimed, IInv, TypeOK
  <1>3. \A d \in Commands : status'[d] \in InFlight => status[d] \in InFlight
    BY <1>1 DEF IInv, TypeOK, InFlight
  <1>4. \A d \in Commands : HasRow(d)' <=> HasRow(d)
    BY <1>1 DEF HasRow
  <1>5. OutboxFrom({})
    BY <1>1, OutboxUnchanged
  <1>6. InboxDistinct' /\ \A d \in Commands : InInbox(d)' => InInbox(d)
    BY <1>1 DEF InboxDistinct, InInbox, IInv, SingleClaim
  <1>7. \A d \in Commands : status'[d] \in InFlight \/ d \in pending' \/ journal'[d] # "NONE"
                            => Traced(d) \/ HasRow(d)
    BY <1>1, <1>3 DEF Traced
  <1> QED BY <1>1, <1>2, <1>4, <1>5, <1>6, <1>7, QuietStep

LEMMA DeliverOnce ==
  ASSUME IInv, [Next]_vars, NEW order \in Arrangements(response), DeliverResponse(order)
  PROVE  IInv'
  <1>1. TypeOK'
    BY NextType DEF IInv
  <1>2. /\ UNCHANGED <<status, attempts, boundary, seen, latePreAck, hand, outbox, pending, journal, calls>>
        /\ response' = {} /\ inbox' = inbox \o order
    BY DEF DeliverResponse, coreVars, durableVars, brokerVars
  <1>3. IsFiniteSet(response) /\ response \subseteq Commands /\ inbox \in Seq(Commands)
    BY ConstantsAssumption, FS_Subset DEF IInv, TypeOK
  <1>4. order \in Seq(Commands) /\ Len(order) = Cardinality(response) /\ Cardinality(response) \in Nat
    BY <1>3, ArrangementType
  <1>5. /\ \A i \in 1 .. Len(order) : order[i] \in response
        /\ \A i, j \in 1 .. Len(order) : order[i] = order[j] => i = j
    BY <1>4 DEF Arrangements
  <1>6. \A i \in 1 .. Len(inbox') :
          \/ i \in 1 .. Len(inbox) /\ inbox'[i] = inbox[i]
          \/ i \notin 1 .. Len(inbox) /\ i - Len(inbox) \in 1 .. Len(order) /\ inbox'[i] = order[i - Len(inbox)]
    BY <1>2, <1>3, <1>4, ConcatElements
  <1>7. \A d \in Commands : InInbox(d)' => InInbox(d) \/ d \in response
    BY <1>5, <1>6 DEF InInbox
  <1>8. \A i \in 1 .. Len(inbox) : inbox[i] \notin response
    BY <1>3 DEF IInv, SingleClaim, InInbox
  <1>9. InboxDistinct'
    <2> SUFFICES ASSUME NEW i \in 1 .. Len(inbox'), NEW j \in 1 .. Len(inbox'), inbox'[i] = inbox'[j]
                 PROVE  i = j
      BY DEF InboxDistinct
    <2>1. Len(inbox) \in Nat /\ i \in Int /\ j \in Int
      BY <1>1, <1>3
    <2>2. CASE i \in 1 .. Len(inbox) /\ j \in 1 .. Len(inbox)
      BY <1>6, <2>2 DEF IInv, SingleClaim, InboxDistinct
    <2>3. CASE i \notin 1 .. Len(inbox) /\ j \notin 1 .. Len(inbox)
      <3>1. i - Len(inbox) = j - Len(inbox)
        BY <1>5, <1>6, <2>3
      <3> QED BY <3>1, <2>1
    <2>4. CASE i \in 1 .. Len(inbox) /\ j \notin 1 .. Len(inbox)
      BY <1>5, <1>6, <1>8, <2>4
    <2>5. CASE i \notin 1 .. Len(inbox) /\ j \in 1 .. Len(inbox)
      BY <1>5, <1>6, <1>8, <2>5
    <2> QED BY <2>2, <2>3, <2>4, <2>5
  <1>10. /\ RateLimitedCurrent' /\ \A d \in Commands : Unrequeued(d)' <=> Unrequeued(d)
         /\ \A d \in Commands : (Unclaimed(d)' <=> Unclaimed(d)) /\ (HasRow(d)' <=> HasRow(d))
    BY <1>2 DEF RateLimitedCurrent, Unrequeued, Unclaimed, HasRow, IInv, SingleClaim
  <1>11. SingleClaim'
    BY <1>2, <1>7, <1>9, <1>10 DEF IInv, SingleClaim
  <1>12. \A d \in Commands : Traced(d)' => Traced(d) \/ HasRow(d)
    BY <1>2, <1>7 DEF Traced
  <1>13. RowBeforeAnyTrace' /\ OneRowPerKey'
    <2>1. OutboxFrom({})
      BY <1>2, OutboxUnchanged
    <2> QED BY <1>1, <1>2, <1>10, <1>12, <2>1, RowsKept
  <1>14. PreAckBeforeCall'
    BY <1>2 DEF IInv, PreAckBeforeCall
  <1> QED BY <1>1, <1>11, <1>13, <1>14 DEF IInv

LEMMA DispatchOnce ==
  ASSUME IInv, [Next]_vars, NEW S \in SUBSET Commands, DispatchReadyCommands(S)
  PROVE  IInv'
  <1>1. TypeOK'
    BY NextType DEF IInv
  <1>2. /\ UNCHANGED <<seen, latePreAck, inbox, hand, outbox, pending, journal, calls>>
        /\ response = {} /\ response' = S
        /\ \A c \in S : status[c] = "QUEUED"
        /\ ClaimsKeepKeysUnique(S)
    BY DEF DispatchReadyCommands, Dispatchable, gatewayVars, durableVars, brokerVars
  <1>3. \A c \in Commands :
          /\ c \in S => status'[c] = "CLAIMED"
          /\ c \notin S => /\ status'[c] \in {status[c], "EXPIRED"}
                           /\ attempts'[c] = attempts[c]
    BY DEF DispatchReadyCommands
  <1>4. \A c \in Commands :
          /\ c \in S => boundary'[c].state \in BoundaryStates
          /\ c \notin S => boundary'[c] = boundary[c]
    BY UpsertAllEffect DEF DispatchReadyCommands, IInv, BoundaryStates
  <1>5. \A c \in Commands : (HasRow(c)' <=> c \in S \/ HasRow(c))
    BY <1>4 DEF HasRow, BoundaryStates
  <1>6. \A c \in Commands : Unrequeued(c)' <=> Unrequeued(c)
    BY <1>2 DEF Unrequeued
  <1>7. \A c \in Commands : InInbox(c)' <=> InInbox(c)
    BY <1>2 DEF InInbox
  <1>8. \A c \in Commands : c \in S => Unclaimed(c)
    BY <1>2 DEF Unclaimed
  <1>9. \A c \in Commands : Unclaimed(c)' => c \notin S /\ Unclaimed(c)
    BY <1>3 DEF Unclaimed
  <1>10. RateLimitedCurrent'
    <2>1. \A i \in 1 .. Len(outbox) : outbox[i] \in Events
      BY DEF IInv, TypeOK
    <2>2. \A i \in 1 .. Len(outbox) : outbox[i].cmd \in Commands
      BY <2>1 DEF Events
    <2> SUFFICES ASSUME NEW i \in 1 .. Len(outbox), outbox[i].type = "rate_limited", outbox[i] \notin seen
                 PROVE  outbox[i].n = attempts'[outbox[i].cmd]
      BY <1>2 DEF RateLimitedCurrent
    <2>3. Unrequeued(outbox[i].cmd)
      BY DEF Unrequeued
    <2>4. outbox[i].cmd \notin S
      BY <1>8, <2>2, <2>3 DEF IInv, SingleClaim
    <2> QED BY <1>3, <2>2, <2>4 DEF IInv, SingleClaim, RateLimitedCurrent
  <1>11. SingleClaim'
    <2>1. InboxDistinct'
      BY <1>2 DEF IInv, SingleClaim, InboxDistinct
    <2> QED BY <1>2, <1>6, <1>7, <1>8, <1>9, <1>10, <2>1 DEF IInv, SingleClaim
  <1>12. \A c \in Commands : Traced(c)' => HasRow(c)'
    <2> SUFFICES ASSUME NEW c \in Commands, Traced(c)', c \notin S
                 PROVE  HasRow(c)
      BY <1>5
    <2>1. status'[c] \in InFlight => status[c] \in InFlight
      BY <1>3 DEF InFlight
    <2>2. Traced(c)
      BY <1>2, <1>7, <2>1 DEF Traced
    <2> QED BY <2>2 DEF IInv, RowBeforeAnyTrace
  <1>13. RowBeforeAnyTrace'
    <2>1. \A i \in 1 .. Len(outbox) : outbox[i] \in Events
      BY DEF IInv, TypeOK
    <2>2. \A i \in 1 .. Len(outbox) : outbox[i].cmd \in Commands /\ HasRow(outbox[i].cmd)
      BY <2>1 DEF Events, IInv, RowBeforeAnyTrace
    <2>3. \A e \in latePreAck : e.cmd \in Commands /\ HasRow(e.cmd)
      BY DEF Events, IInv, TypeOK, RowBeforeAnyTrace
    <2>4. (\A i \in 1 .. Len(outbox) : HasRow(outbox[i].cmd))'
      BY <1>2, <1>5, <2>2 DEF HasRow
    <2>5. (\A e \in latePreAck : HasRow(e.cmd))'
      BY <1>2, <1>5, <2>3 DEF HasRow
    <2> QED BY <1>12, <2>4, <2>5 DEF RowBeforeAnyTrace
  <1>14. OneRowPerKey'
    <2> SUFFICES ASSUME NEW c \in Commands, NEW d \in Commands, c # d, KeyOf[c] = KeyOf[d],
                        HasRow(c)', HasRow(d)'
                 PROVE  FALSE
      BY DEF OneRowPerKey
    <2>1. \A x \in S, y \in Commands : x # y /\ KeyOf[x] = KeyOf[y] => ~HasRow(y) /\ y \notin S
      BY <1>2 DEF ClaimsKeepKeysUnique, HasRow
    <2> QED BY <1>5, <2>1 DEF IInv, OneRowPerKey
  <1>15. PreAckBeforeCall'
    BY <1>2, PreAckKept
  <1> QED BY <1>1, <1>11, <1>13, <1>14, <1>15 DEF IInv

\* What taking a command off the inbox does: it was there once.
LEMMA TakeOnce ==
  ASSUME IInv, NEW c \in Commands, TakeCommand(c)
  PROVE  /\ InInbox(c) /\ HasRow(c)
         /\ InboxDistinct'
         /\ \A d \in Commands : InInbox(d)' => InInbox(d) /\ d # c
         /\ calls[c] = 0 /\ ~Unclaimed(c) /\ ~Unrequeued(c) /\ c \notin response
         /\ hand = Idle
  <1>1. inbox \in Seq(Commands) /\ inbox # <<>> /\ c = inbox[1] /\ inbox' = Tail(inbox) /\ hand = Idle
    BY DEF TakeCommand, IInv, TypeOK
  <1>2. \A i \in 1 .. Len(inbox') : i + 1 \in 1 .. Len(inbox) /\ inbox'[i] = inbox[i + 1]
    BY <1>1, TailElements
  <1>3. 1 \in 1 .. Len(inbox) /\ Len(inbox) \in Nat /\ Len(inbox') \in Nat
    BY <1>1
  <1>4. InInbox(c)
    BY <1>1, <1>3 DEF InInbox
  <1>5. InboxDistinct'
    BY <1>2, <1>3 DEF IInv, SingleClaim, InboxDistinct
  <1>6. \A d \in Commands : InInbox(d)' => InInbox(d) /\ d # c
    <2> SUFFICES ASSUME NEW d \in Commands, NEW i \in 1 .. Len(inbox'), inbox'[i] = d
                 PROVE  InInbox(d) /\ d # c
      BY DEF InInbox
    <2>1. i + 1 \in 1 .. Len(inbox) /\ inbox[i + 1] = d /\ i + 1 # 1
      BY <1>2, <1>3
    <2>2. InInbox(d)
      BY <2>1 DEF InInbox
    <2>3. InboxDistinct
      BY DEF IInv, SingleClaim
    <2> QED BY <1>1, <1>3, <2>1, <2>2, <2>3 DEF InboxDistinct
  <1>7. HasRow(c)
    BY <1>4 DEF IInv, RowBeforeAnyTrace, Traced
  <1> QED BY <1>1, <1>4, <1>5, <1>6, <1>7 DEF IInv, SingleClaim

\* Steps after which the command just taken or called has its permission in a
\* new place; nothing about any other command changes.
LEMMA RateLimitOnce ==
  ASSUME IInv, [Next]_vars, NEW c \in Commands, RateLimitCommand(c)
  PROVE  IInv'
  <1> DEFINE started == EventOf("command_started", c)
             limited == EventOf("rate_limited", c)
  <1>1. TypeOK'
    BY NextType DEF IInv
  <1>2. /\ UNCHANGED <<status, attempts, boundary, seen, response, latePreAck, pending, journal, calls>>
        /\ TakeCommand(c) /\ hand' = Idle /\ outbox' = outbox \o <<started, limited>>
    BY DEF RateLimitCommand, coreVars, wireVars, durableVars, brokerVars
  <1>3. /\ started \in Events /\ limited \in Events
        /\ started.type = "command_started" /\ limited.type = "rate_limited"
        /\ started.cmd = c /\ limited.cmd = c /\ limited.n = attempts[c]
    BY EventOfType DEF EventOf, Event, EventTypes, IInv
  <1> HIDE DEF started, limited
  <1>4. OutboxFrom({started, limited})
    <2>1. outbox \in Seq(Events) /\ <<started, limited>> \in Seq(Events)
      BY <1>3 DEF IInv, TypeOK
    <2>2. Len(<<started, limited>>) = 2 /\ <<started, limited>>[1] = started /\ <<started, limited>>[2] = limited
      OBVIOUS
    <2>3. \A k \in 1 .. Len(<<started, limited>>) : <<started, limited>>[k] \in {started, limited}
      BY <2>2
    <2> QED BY <1>2, <2>1, <2>3, ConcatElements DEF OutboxFrom
  <1>5. \A d \in Commands : Unrequeued(d)' => Unrequeued(d) \/ d = c
    BY <1>2, <1>3, <1>4 DEF Unrequeued, OutboxFrom
  <1>6. RateLimitedCurrent'
    BY <1>2, <1>3, <1>4 DEF RateLimitedCurrent, OutboxFrom, IInv, SingleClaim
  <1>7. \A d \in Commands : (Unclaimed(d)' <=> Unclaimed(d)) /\ (HasRow(d)' <=> HasRow(d))
    BY <1>2 DEF Unclaimed, HasRow
  <1>8. SingleClaim'
    BY <1>2, <1>5, <1>6, <1>7, TakeOnce, ConstantsAssumption DEF IInv, SingleClaim, Idle
  <1>9. RowBeforeAnyTrace' /\ OneRowPerKey'
    <2>1. \A d \in Commands : Traced(d)' => Traced(d) \/ HasRow(d)
      BY <1>2, TakeOnce, ConstantsAssumption DEF Traced, Idle
    <2> QED BY <1>1, <1>2, <1>3, <1>4, <1>7, <2>1, TakeOnce, RowsKept
  <1>10. PreAckBeforeCall'
    BY <1>2, PreAckKept, ConstantsAssumption DEF Idle
  <1> QED BY <1>1, <1>8, <1>9, <1>10 DEF IInv

LEMMA StartOnce ==
  ASSUME IInv, [Next]_vars, NEW c \in Commands, StartCommand(c)
  PROVE  IInv'
  <1> DEFINE started == EventOf("command_started", c)
  <1>1. TypeOK'
    BY NextType DEF IInv
  <1>2. /\ UNCHANGED <<status, attempts, boundary, seen, response, latePreAck, pending, journal, calls>>
        /\ TakeCommand(c) /\ hand' = At(c, "started") /\ outbox' = Append(outbox, started)
    BY DEF StartCommand, Emit, coreVars, wireVars, durableVars, brokerVars
  <1>3. started \in Events /\ started.type # "rate_limited" /\ started.cmd = c
    BY EventOfType DEF EventOf, Event, EventTypes, IInv
  <1> HIDE DEF started
  <1>4. OutboxFrom({started})
    BY <1>2, <1>3, OutboxAppended DEF IInv
  <1>5. RateLimitedCurrent' /\ \A d \in Commands : Unrequeued(d)' => Unrequeued(d)
    BY <1>2, <1>3, <1>4, NoNewRequeue DEF IInv, SingleClaim
  <1>6. \A d \in Commands : (Unclaimed(d)' <=> Unclaimed(d)) /\ (HasRow(d)' <=> HasRow(d))
    BY <1>2 DEF Unclaimed, HasRow
  <1>7. hand'.cmd = c /\ hand'.stage = "started"
    BY <1>2 DEF At
  <1>8. SingleClaim'
    BY <1>2, <1>5, <1>6, <1>7, TakeOnce DEF IInv, SingleClaim
  <1>9. RowBeforeAnyTrace' /\ OneRowPerKey'
    <2>1. \A d \in Commands : Traced(d)' => Traced(d) \/ HasRow(d)
      BY <1>2, <1>7, TakeOnce DEF Traced
    <2> QED BY <1>1, <1>2, <1>3, <1>4, <1>6, <2>1, TakeOnce, RowsKept
  <1>10. PreAckBeforeCall'
    BY <1>2, <1>7, PreAckKept
  <1> QED BY <1>1, <1>8, <1>9, <1>10 DEF IInv

LEMMA BrokerCallOnce ==
  ASSUME IInv, [Next]_vars, NEW c \in Commands, NEW result, NEW accepts, BrokerCall(c, result, accepts)
  PROVE  IInv'
  <1>1. TypeOK'
    BY NextType DEF IInv
  <1>2. /\ UNCHANGED <<status, attempts, boundary, seen, response, latePreAck, inbox, outbox, pending, journal>>
        /\ hand.cmd = c /\ hand.stage = "confirmed" /\ hand'.cmd = c /\ hand'.stage = "called"
        /\ calls' = [calls EXCEPT ![c] = @ + 1]
    BY DEF BrokerCall, At, coreVars, wireVars, durableVars
  <1>3. calls[c] = 0 /\ calls'[c] = 1 /\ \A d \in Commands : d # c => calls'[d] = calls[d]
    BY <1>2 DEF IInv, SingleClaim, TypeOK
  <1>4. /\ InboxDistinct' /\ RateLimitedCurrent'
        /\ \A d \in Commands : /\ Unclaimed(d)' <=> Unclaimed(d)
                               /\ InInbox(d)' <=> InInbox(d)
                               /\ Unrequeued(d)' <=> Unrequeued(d)
                               /\ HasRow(d)' <=> HasRow(d)
    BY <1>2 DEF InboxDistinct, RateLimitedCurrent, Unclaimed, InInbox, Unrequeued, HasRow, IInv, SingleClaim
  <1>5. SingleClaim'
    BY <1>2, <1>3, <1>4 DEF IInv, SingleClaim
  <1>6. RowBeforeAnyTrace' /\ OneRowPerKey'
    <2>1. \A d \in Commands : Traced(d)' => Traced(d) \/ HasRow(d)
      BY <1>2, <1>3, <1>4 DEF Traced
    <2>2. OutboxFrom({})
      BY <1>2, OutboxUnchanged
    <2> QED BY <1>1, <1>2, <1>4, <2>1, <2>2, RowsKept
  <1>7. PreAckBeforeCall'
    BY <1>2, <1>3 DEF IInv, PreAckBeforeCall
  <1> QED BY <1>1, <1>5, <1>6, <1>7 DEF IInv

-----------------------------------------------------------------------------
(* Quiet steps of the Gateway *)

LEMMA InboxKept ==
  ASSUME IInv, UNCHANGED inbox
  PROVE  InboxDistinct' /\ \A d \in Commands : InInbox(d)' => InInbox(d)
  BY DEF IInv, SingleClaim, InboxDistinct, InInbox

\* QuietStep for a step that leaves Core and the broker alone.
LEMMA LocalStep ==
  ASSUME IInv, [Next]_vars, UNCHANGED <<status, attempts, boundary, seen, calls>>, response' \subseteq response,
         \A c \in Commands : c \in pending' \/ journal'[c] # "NONE" => Traced(c) \/ HasRow(c),
         NEW New, OutboxFrom(New),
         \A e \in New : e \in Events /\ e.type # "rate_limited" /\ HasRow(e.cmd),
         \A e \in latePreAck' : e \in latePreAck \/ HasRow(e.cmd),
         InboxDistinct', \A c \in Commands : InInbox(c)' => InInbox(c),
         \/ hand' = Idle
         \/ /\ hand'.cmd = hand.cmd /\ (hand'.stage = "called" <=> hand.stage = "called")
            /\ hand'.stage = "confirmed" /\ hand'.cmd \in Commands =>
                 hand.stage = "confirmed" \/ boundary'[hand.cmd].preAck
  PROVE  IInv'
  <1>1. \A c \in Commands : (HasRow(c)' <=> HasRow(c)) /\ (Unclaimed(c)' <=> Unclaimed(c))
    BY DEF HasRow, Unclaimed
  <1>2. \A c \in Commands : status'[c] \in InFlight \/ c \in pending' \/ journal'[c] # "NONE"
                            => Traced(c) \/ HasRow(c)
    BY DEF Traced
  <1> QED BY <1>1, <1>2, QuietStep

\* The command in the handler has a row, and so has the event it emits.
LEMMA HandlerEvent ==
  ASSUME IInv, NEW c \in Commands, hand.cmd = c \/ InInbox(c) \/ c \in pending,
         NEW type \in EventTypes
  PROVE  /\ HasRow(c)
         /\ EventOf(type, c) \in Events /\ HasRow(EventOf(type, c).cmd)
         /\ EventOf(type, c).type = type /\ EventOf(type, c).cmd = c
  <1>1. HasRow(c)
    BY DEF IInv, RowBeforeAnyTrace, Traced
  <1>2. EventOf(type, c) \in Events
    BY EventOfType DEF IInv
  <1>3. EventOf(type, c).type = type /\ EventOf(type, c).cmd = c
    BY DEF EventOf, Event
  <1> QED BY <1>1, <1>2, <1>3

LEMMA JournalRows ==
  ASSUME IInv, NEW c \in Commands, HasRow(c), NEW value, journal' = [journal EXCEPT ![c] = value]
  PROVE  \A d \in Commands : journal'[d] # "NONE" => Traced(d) \/ HasRow(d)
  BY DEF IInv, TypeOK, Traced

LEMMA RefuseOnce ==
  ASSUME IInv, [Next]_vars, NEW c \in Commands, RefuseCommand(c)
  PROVE  IInv'
  <1> DEFINE e == EventOf("command_failed", c)
  <1>1. /\ UNCHANGED <<status, attempts, boundary, seen, response, latePreAck, pending, journal, calls>>
        /\ TakeCommand(c) /\ hand' = Idle /\ outbox' = Append(outbox, e)
    BY DEF RefuseCommand, Finish, Emit, coreVars, wireVars, durableVars, brokerVars
  <1>2. e \in Events /\ HasRow(e.cmd) /\ e.type # "rate_limited"
    BY <1>1, TakeOnce, HandlerEvent DEF EventTypes
  <1> HIDE DEF e
  <1>3. OutboxFrom({e})
    BY <1>1, <1>2, OutboxAppended DEF IInv
  <1>4. InboxDistinct' /\ \A d \in Commands : InInbox(d)' => InInbox(d)
    BY <1>1, TakeOnce
  <1>5. \A d \in Commands : d \in pending' \/ journal'[d] # "NONE" => Traced(d) \/ HasRow(d)
    BY <1>1 DEF Traced
  <1> QED BY <1>1, <1>2, <1>3, <1>4, <1>5, LocalStep

\* A handler step that ends, or only moves on, the command in hand.
LEMMA HandlerOnce ==
  ASSUME IInv, [Next]_vars, NEW c \in Commands,
         \/ JournalPreAck(c) \/ JournalPreAckFails(c) \/ ReportResult(c) \/ ResultWriteFails(c)
         \/ ReportUnconfirmed(c) \/ UnconfirmedWriteFails(c)
  PROVE  IInv'
  <1>1. /\ UNCHANGED <<status, attempts, boundary, seen, response, latePreAck, inbox, calls>>
        /\ hand.cmd = c
    BY DEF JournalPreAck, JournalPreAckFails, ReportResult, ResultWriteFails, ReportUnconfirmed,
       UnconfirmedWriteFails, At, coreVars, wireVars, brokerVars
  <1>2. HasRow(c)
    BY <1>1 DEF IInv, RowBeforeAnyTrace, Traced
  <1>3. InboxDistinct' /\ \A d \in Commands : InInbox(d)' => InInbox(d)
    BY <1>1, InboxKept
  <1>4. \/ hand' = Idle
        \/ /\ hand'.cmd = hand.cmd /\ (hand'.stage = "called" <=> hand.stage = "called")
           /\ hand'.stage # "confirmed"
    BY DEF JournalPreAck, JournalPreAckFails, ReportResult, ResultWriteFails, ReportUnconfirmed,
       UnconfirmedWriteFails, Finish, At
  <1>5. \A d \in Commands : d \in pending' \/ journal'[d] # "NONE" => Traced(d) \/ HasRow(d)
    <2>1. \A d \in Commands : d \in pending' => Traced(d) \/ d = c
      BY DEF JournalPreAck, JournalPreAckFails, ReportResult, ResultWriteFails, ReportUnconfirmed,
         UnconfirmedWriteFails, Traced
    <2>2. journal' = journal \/ \E value : journal' = [journal EXCEPT ![c] = value]
      BY DEF JournalPreAck, JournalPreAckFails, ReportResult, ResultWriteFails, ReportUnconfirmed,
         UnconfirmedWriteFails
    <2>3. CASE journal' = journal
      BY <1>2, <2>1, <2>3 DEF Traced
    <2>4. CASE \E value : journal' = [journal EXCEPT ![c] = value]
      BY <1>2, <2>1, <2>4, JournalRows
    <2> QED BY <2>2, <2>3, <2>4
  <1>6. \/ UNCHANGED outbox
        \/ \E type \in EventTypes : type # "rate_limited" /\ outbox' = Append(outbox, EventOf(type, c))
    BY DEF JournalPreAck, JournalPreAckFails, ReportResult, ResultWriteFails, ReportUnconfirmed,
       UnconfirmedWriteFails, Finish, Emit, EventTypes
  <1>7. CASE UNCHANGED outbox
    BY <1>1, <1>3, <1>4, <1>5, <1>7, OutboxUnchanged, LocalStep
  <1>8. CASE \E type \in EventTypes : type # "rate_limited" /\ outbox' = Append(outbox, EventOf(type, c))
    <2>1. PICK type \in EventTypes : type # "rate_limited" /\ outbox' = Append(outbox, EventOf(type, c))
      BY <1>8
    <2> DEFINE e == EventOf(type, c)
    <2>2. e \in Events /\ HasRow(e.cmd) /\ e.type # "rate_limited"
      BY <1>1, <2>1, HandlerEvent
    <2>3. outbox' = Append(outbox, e)
      BY <2>1
    <2> HIDE DEF e
    <2>4. OutboxFrom({e})
      BY <2>2, <2>3, OutboxAppended DEF IInv
    <2> QED BY <1>1, <1>3, <1>4, <1>5, <2>2, <2>4, LocalStep
  <1> QED BY <1>6, <1>7, <1>8

LEMMA ChejanOnce ==
  ASSUME IInv, [Next]_vars, NEW c \in Commands, LinkedChejan(c)
  PROVE  IInv'
  <1> DEFINE e == EventOf("chejan", c)
  <1>1. /\ UNCHANGED <<status, attempts, boundary, seen, response, latePreAck, inbox, hand, journal, calls>>
        /\ c \in pending /\ pending' \subseteq pending /\ outbox' = Append(outbox, e)
    BY DEF LinkedChejan, Emit, coreVars, wireVars, durableVars, brokerVars
  <1>2. e \in Events /\ HasRow(e.cmd) /\ e.type # "rate_limited"
    BY <1>1, HandlerEvent DEF EventTypes
  <1> HIDE DEF e
  <1>3. OutboxFrom({e})
    BY <1>1, <1>2, OutboxAppended DEF IInv
  <1>4. \A d \in Commands : d \in pending' \/ journal'[d] # "NONE" => Traced(d) \/ HasRow(d)
    BY <1>1 DEF Traced
  <1> QED BY <1>1, <1>2, <1>3, <1>4, InboxKept, LocalStep

LEMMA DisconnectOnce ==
  ASSUME IInv, [Next]_vars, SessionDisconnected
  PROVE  IInv'
  <1> DEFINE ev(i) == EventOf("command_failed", inbox[i])
             New == {ev(i) : i \in 1 .. Len(inbox)}
             failures == [i \in 1 .. Len(inbox) |-> ev(i)]
  <1>1. /\ UNCHANGED <<status, attempts, boundary, seen, response, latePreAck, hand, pending, journal, calls>>
        /\ outbox' = outbox \o failures /\ inbox' = <<>>
    BY DEF SessionDisconnected, coreVars, wireVars, durableVars, brokerVars
  <1>2. inbox \in Seq(Commands) /\ outbox \in Seq(Events) /\ Len(inbox) \in Nat
    BY DEF IInv, TypeOK
  <1>3. \A i \in 1 .. Len(inbox) : inbox[i] \in Commands /\ InInbox(inbox[i])
    BY <1>2 DEF InInbox
  <1>4. \A i \in 1 .. Len(inbox) : ev(i) \in Events /\ HasRow(ev(i).cmd) /\ ev(i).type # "rate_limited"
    BY <1>3, HandlerEvent DEF EventTypes
  <1>5. OutboxFrom(New)
    <2> HIDE DEF ev
    <2>1. failures \in Seq(Events) /\ Len(failures) = Len(inbox)
      BY <1>2, <1>4
    <2>2. \A k \in 1 .. Len(failures) : failures[k] \in New
      BY <2>1
    <2> HIDE DEF New, failures
    <2> QED BY <1>1, <1>2, <2>1, <2>2, ConcatElements DEF OutboxFrom
  <1>6. \A e \in New : e \in Events /\ e.type # "rate_limited" /\ HasRow(e.cmd)
    BY <1>4
  <1>7. InboxDistinct' /\ \A d \in Commands : InInbox(d)' => InInbox(d)
    BY <1>1 DEF InboxDistinct, InInbox
  <1>8. \A d \in Commands : d \in pending' \/ journal'[d] # "NONE" => Traced(d) \/ HasRow(d)
    BY <1>1 DEF Traced
  <1> HIDE DEF New
  <1> QED BY <1>1, <1>5, <1>6, <1>7, <1>8, LocalStep

LEMMA CrashOnce ==
  ASSUME IInv, [Next]_vars, NEW order \in Arrangements(Replayed), NEW inTransit \in BOOLEAN,
         CrashAndRestart(order, inTransit)
  PROVE  IInv'
  <1> DEFINE ev(i) == RecoveryEvent(order[i], crashes + 1)
             New == {ev(i) : i \in 1 .. Len(order)}
  <1>1. /\ UNCHANGED <<status, attempts, boundary, seen, journal, calls>>
        /\ response' = {} /\ inbox' = <<>> /\ hand' = Idle /\ pending' = {}
        /\ outbox' = [i \in 1 .. Len(order) |-> ev(i)]
    BY DEF CrashAndRestart, coreVars, brokerVars
  <1>2. IsFiniteSet(Replayed) /\ Replayed \subseteq Commands
    BY ConstantsAssumption, FS_Subset DEF Replayed
  <1>3. order \in Seq(Replayed) /\ Len(order) \in Nat
    BY <1>2, ArrangementType
  <1>4. \A i \in 1 .. Len(order) : order[i] \in Commands /\ HasRow(order[i])
    BY <1>3 DEF Replayed, IInv, RowBeforeAnyTrace, Traced
  <1>5. \A i \in 1 .. Len(order) : ev(i) \in Events /\ HasRow(ev(i).cmd) /\ ev(i).type # "rate_limited"
    BY <1>4, ConstantsAssumption DEF RecoveryEvent, Event, Events, EventTypes, IInv, TypeOK
  <1>6. OutboxFrom(New)
    <2> HIDE DEF ev
    <2>1. Len(outbox') = Len(order)
      BY <1>1, <1>3
    <2> QED BY <1>1, <1>3, <2>1 DEF OutboxFrom
  <1>7. \A e \in New : e \in Events /\ e.type # "rate_limited" /\ HasRow(e.cmd)
    BY <1>5
  <1>8. InboxDistinct' /\ \A d \in Commands : InInbox(d)' => InInbox(d)
    BY <1>1 DEF InboxDistinct, InInbox
  <1>9. \A d \in Commands : d \in pending' \/ journal'[d] # "NONE" => Traced(d) \/ HasRow(d)
    BY <1>1 DEF Traced
  <1>10. \A e \in latePreAck' : e \in latePreAck \/ HasRow(e.cmd)
    <2>1. CASE inTransit
      <3>1. hand.cmd \in Commands
        BY <2>1 DEF CrashAndRestart, IInv, TypeOK, Hands, Idle
      <3>2. HasRow(hand.cmd) /\ EventOf("order_pre_ack", hand.cmd).cmd = hand.cmd
        BY <3>1 DEF IInv, RowBeforeAnyTrace, Traced, EventOf, Event
      <3> QED BY <2>1, <3>2 DEF CrashAndRestart
    <2>2. CASE ~inTransit
      BY <2>2 DEF CrashAndRestart
    <2> QED BY <2>1, <2>2
  <1> HIDE DEF New
  <1> QED BY <1>1, <1>6, <1>7, <1>8, <1>9, <1>10, LocalStep

LEMMA LoseOnce ==
  ASSUME IInv, [Next]_vars, LoseResponse \/ UNCHANGED vars \/ \E c \in Commands : PassExpiry(c)
  PROVE  IInv'
  <1>1. /\ UNCHANGED <<status, attempts, boundary, seen, latePreAck, inbox, hand, outbox, pending, journal, calls>>
        /\ response' \subseteq response
    BY DEF LoseResponse, PassExpiry, vars, gatewayVars, coreVars, wireVars, durableVars, brokerVars
  <1>2. \A d \in Commands : d \in pending' \/ journal'[d] # "NONE" => Traced(d) \/ HasRow(d)
    BY <1>1 DEF Traced
  <1> QED BY <1>1, <1>2, InboxKept, OutboxUnchanged, LocalStep

-----------------------------------------------------------------------------
(* Steps of Core *)

LEMMA ExpireOnce ==
  ASSUME IInv, [Next]_vars, NEW S \in SUBSET Commands, ExpireStaleGatewayCommands(S)
  PROVE  IInv'
  <1>1. /\ UNCHANGED <<attempts, seen, response, latePreAck, inbox, hand, outbox, pending, journal, calls>>
        /\ \A c \in S : status[c] \in InFlight
    BY DEF ExpireStaleGatewayCommands, wireVars, gatewayVars, durableVars, brokerVars
  <1>2. \A c \in Commands : status'[c] \in {status[c], "EXPIRED", "UNCONFIRMED"}
    BY DEF ExpireStaleGatewayCommands
  <1>3. \A c \in Commands : /\ c \in S => boundary'[c].state \in BoundaryStates
                            /\ c \notin S => boundary'[c] = boundary[c]
    BY UpsertAllEffect DEF ExpireStaleGatewayCommands, IInv, BoundaryStates
  <1>4. \A c \in S : HasRow(c)
    BY <1>1 DEF IInv, RowBeforeAnyTrace, Traced
  <1>5. \A c \in Commands : HasRow(c)' <=> HasRow(c)
    BY <1>3, <1>4 DEF HasRow, BoundaryStates
  <1>6. \A c \in Commands : /\ Unclaimed(c)' => Unclaimed(c)
                            /\ status'[c] \in InFlight => status[c] \in InFlight
    BY <1>2 DEF Unclaimed, InFlight
  <1>7. \A d \in Commands : status'[d] \in InFlight \/ d \in pending' \/ journal'[d] # "NONE"
                            => Traced(d) \/ HasRow(d)
    BY <1>1, <1>6 DEF Traced
  <1>8. \/ hand' = Idle
        \/ /\ hand'.cmd = hand.cmd /\ (hand'.stage = "called" <=> hand.stage = "called")
           /\ hand'.stage = "confirmed" /\ hand'.cmd \in Commands =>
                hand.stage = "confirmed" \/ boundary'[hand.cmd].preAck
    BY <1>1
  <1> QED BY <1>1, <1>5, <1>6, <1>7, <1>8, InboxKept, OutboxUnchanged, QuietStep

\* QuietStep for a step that records an event which re-queues nothing.
LEMMA RecordStep ==
  ASSUME IInv, [Next]_vars, NEW e \in Events, Record(e), HasRow(e.cmd), e.type # "rate_limited" \/ e \in seen,
         UNCHANGED <<attempts, response, inbox, pending, calls>>,
         \A c \in Commands : journal'[c] # "NONE" => Traced(c) \/ HasRow(c),
         NEW New, OutboxFrom(New),
         \A x \in New : x \in Events /\ x.type # "rate_limited" /\ HasRow(x.cmd),
         latePreAck' \subseteq latePreAck,
         \/ hand' = Idle
         \/ /\ hand'.cmd = hand.cmd /\ (hand'.stage = "called" <=> hand.stage = "called")
            /\ hand'.stage = "confirmed" /\ hand'.cmd \in Commands =>
                 hand.stage = "confirmed" \/ boundary'[hand.cmd].preAck
  PROVE  IInv'
  <1>1. /\ \A c \in Commands : HasRow(c)' <=> HasRow(c)
        /\ \A c \in Commands : Unclaimed(c)' => Unclaimed(c)
    BY RecordKeepsRows
  <1>2. \A c \in Commands : status'[c] \in InFlight \/ c \in pending' \/ journal'[c] # "NONE"
                            => Traced(c) \/ HasRow(c)
    BY RecordKeepsRows DEF Traced
  <1>3. seen \subseteq seen'
    BY DEF Record
  <1> QED BY <1>1, <1>2, <1>3, InboxKept, QuietStep

LEMMA PreAckOnce ==
  ASSUME IInv, [Next]_vars, NEW c \in Commands,
         \/ PreAckConfirmed(c)
         \/ \E fate \in {"lost", "committed", "late"}, written \in BOOLEAN : PreAckUnanswered(c, fate, written)
  PROVE  IInv'
  <1> DEFINE e == EventOf("order_pre_ack", c)
             f == EventOf("command_failed", c)
  <1>1. /\ UNCHANGED <<attempts, response, inbox, pending, calls>>
        /\ hand.cmd = c /\ hand.stage = "journaled"
    BY DEF PreAckConfirmed, PreAckUnanswered, At, wireVars, brokerVars
  <1>2. /\ e \in Events /\ e.type # "rate_limited" /\ e.cmd = c /\ HasRow(c)
        /\ f \in Events /\ f.type # "rate_limited" /\ f.cmd = c
    BY <1>1, HandlerEvent DEF EventTypes
  <1>3. CASE PreAckConfirmed(c)
    <2>1. /\ Record(e) /\ boundary'[c].preAck
          /\ hand'.cmd = c /\ hand'.stage = "confirmed"
          /\ UNCHANGED <<outbox, latePreAck, journal>>
      BY <1>3 DEF PreAckConfirmed, At, wireVars, durableVars
    <2>2. \A d \in Commands : journal'[d] # "NONE" => Traced(d) \/ HasRow(d)
      BY <2>1 DEF Traced
    <2> HIDE DEF e
    <2> QED BY <1>1, <1>2, <2>1, <2>2, OutboxUnchanged, RecordStep
  <1>4. ASSUME NEW fate \in {"lost", "committed", "late"}, NEW written \in BOOLEAN,
               PreAckUnanswered(c, fate, written)
        PROVE  IInv'
    <2>1. /\ hand' = Idle /\ outbox' = Append(outbox, f)
          /\ journal' \in {journal, [journal EXCEPT ![c] = "SEND_FAILED"]}
          /\ \/ UNCHANGED <<status, boundary, seen, latePreAck>>
             \/ Record(e) /\ UNCHANGED latePreAck
             \/ latePreAck' = latePreAck \cup {e} /\ UNCHANGED <<status, boundary, seen>>
      BY <1>4 DEF PreAckUnanswered, Finish, Emit
    <2> HIDE DEF e, f
    <2>2. OutboxFrom({f})
      BY <1>2, <2>1, OutboxAppended DEF IInv
    <2>3. \A d \in Commands : journal'[d] # "NONE" => Traced(d) \/ HasRow(d)
      BY <1>2, <2>1, JournalRows DEF Traced
    <2>4. CASE Record(e) /\ UNCHANGED latePreAck
      BY <1>1, <1>2, <2>1, <2>2, <2>3, <2>4, RecordStep
    <2>5. CASE /\ UNCHANGED <<status, boundary, seen>>
               /\ latePreAck' \subseteq latePreAck \cup {e}
      <3>1. \A d \in Commands : d \in pending' \/ journal'[d] # "NONE" => Traced(d) \/ HasRow(d)
        BY <1>1, <2>3 DEF Traced
      <3>2. \A x \in latePreAck' : x \in latePreAck \/ HasRow(x.cmd)
        BY <1>2, <2>5
      <3> QED BY <1>1, <1>2, <2>1, <2>2, <2>5, <3>1, <3>2, InboxKept, LocalStep
    <2> QED BY <2>1, <2>4, <2>5
  <1> QED BY <1>3, <1>4

LEMMA LatePreAckOnce ==
  ASSUME IInv, [Next]_vars, NEW e \in latePreAck, CommitLatePreAck(e)
  PROVE  IInv'
  <1>1. /\ UNCHANGED <<attempts, response, inbox, hand, outbox, pending, journal, calls>>
        /\ Record(e) /\ latePreAck' \subseteq latePreAck
    BY DEF CommitLatePreAck, gatewayVars, durableVars, brokerVars
  <1>2. e \in Events /\ e.type # "rate_limited" /\ HasRow(e.cmd)
    BY DEF IInv, TypeOK, RowBeforeAnyTrace
  <1>3. \A d \in Commands : journal'[d] # "NONE" => Traced(d) \/ HasRow(d)
    BY <1>1 DEF Traced
  <1> QED BY <1>1, <1>2, <1>3, OutboxUnchanged, RecordStep

\* Core records the oldest event.  Only a rate_limited event seen for the first
\* time hands a permission on: from the event back to the queue.
LEMMA PostOnce ==
  ASSUME IInv, [Next]_vars, NEW answered \in BOOLEAN, PostEvent(answered)
  PROVE  IInv'
  <1> DEFINE e == Head(outbox)
  <1>1. /\ UNCHANGED <<attempts, response, latePreAck, inbox, hand, pending, journal, calls>>
        /\ outbox # <<>> /\ Record(e) /\ outbox' \in {outbox, Tail(outbox)}
    BY DEF PostEvent, wireVars, durableVars, brokerVars
  <1>2. outbox \in Seq(Events) /\ 1 \in 1 .. Len(outbox) /\ e = outbox[1] /\ e \in Events
    BY <1>1 DEF IInv, TypeOK
  <1> HIDE DEF e
  <1>3. HasRow(e.cmd) /\ e.cmd \in Commands
    BY <1>2 DEF IInv, RowBeforeAnyTrace, Events
  <1>4. OutboxFrom({})
    BY <1>1, OutboxUnchanged, OutboxTail DEF IInv
  <1>5. \A d \in Commands : journal'[d] # "NONE" => Traced(d) \/ HasRow(d)
    BY <1>1 DEF Traced
  <1>6. CASE e.type # "rate_limited" \/ e \in seen
    BY <1>1, <1>2, <1>3, <1>4, <1>5, <1>6, RecordStep
  <1>7. CASE e.type = "rate_limited" /\ e \notin seen
    <2>1. TypeOK'
      BY NextType DEF IInv
    <2>2. seen' = seen \cup {e}
      BY <1>1 DEF Record
    <2>3. Unrequeued(e.cmd)
      BY <1>2, <1>7 DEF Unrequeued
    <2>4. \A i \in 1 .. Len(outbox) :
            outbox[i].type = "rate_limited" /\ outbox[i].cmd = e.cmd /\ outbox[i] \notin seen => outbox[i] = e
      <3> SUFFICES ASSUME NEW i \in 1 .. Len(outbox), outbox[i].type = "rate_limited",
                          outbox[i].cmd = e.cmd, outbox[i] \notin seen
                   PROVE  outbox[i] = e
        OBVIOUS
      <3>1. outbox[i] \in Events
        BY <1>2
      <3>2. outbox[i].n = attempts[e.cmd] /\ e.n = attempts[e.cmd]
        BY <1>2, <1>7 DEF IInv, SingleClaim, RateLimitedCurrent
      <3> QED BY <1>2, <1>7, <3>1, <3>2 DEF Events
    <2>5. \A d \in Commands : d = e.cmd => ~Unrequeued(d)'
      BY <1>4, <2>2, <2>4 DEF Unrequeued, OutboxFrom
    <2>6. RateLimitedCurrent' /\ \A d \in Commands : Unrequeued(d)' => Unrequeued(d)
      <3>1. RateLimitedCurrent /\ seen \subseteq seen'
        BY <2>2 DEF IInv, SingleClaim
      <3> QED BY <1>1, <1>4, <3>1, NoNewRequeue
    <2>7. /\ \A d \in Commands : HasRow(d)' <=> HasRow(d)
          /\ \A d \in Commands : d # e.cmd => status'[d] = status[d]
          /\ \A d \in Commands : Unclaimed(d)' => Unclaimed(d) \/ d = e.cmd
      BY <1>1, <1>2, <1>3, RecordKeepsRows
    <2>8. InboxDistinct' /\ \A d \in Commands : InInbox(d)' => InInbox(d)
      BY <1>1, InboxKept
    <2>9. SingleClaim'
      BY <1>1, <1>3, <2>3, <2>5, <2>6, <2>7, <2>8 DEF IInv, SingleClaim
    <2>10. \A d \in Commands : Traced(d)' => Traced(d) \/ HasRow(d)
      BY <1>1, <1>3, <2>7, <2>8 DEF Traced
    <2>11. RowBeforeAnyTrace' /\ OneRowPerKey'
      BY <1>1, <1>4, <2>1, <2>7, <2>10, RowsKept
    <2>12. PreAckBeforeCall'
      BY <1>1, PreAckKept
    <2> QED BY <2>1, <2>9, <2>11, <2>12 DEF IInv
  <1> QED BY <1>6, <1>7

-----------------------------------------------------------------------------
\* The invariant is inductive: one lemma per action.
LEMMA NextOnce == IInv /\ [Next]_vars => IInv'
  <1> SUFFICES ASSUME IInv, [Next]_vars PROVE IInv'
    OBVIOUS
  <1>1. CASE CoreStep
    BY <1>1, EnqueueOnce, LoseOnce, ExpireOnce, DispatchOnce DEF CoreStep
  <1>2. CASE WireStep
    BY <1>2, DeliverOnce, LoseOnce, LatePreAckOnce, PostOnce DEF WireStep
  <1>3. ASSUME NEW c \in Commands, HandlerStep(c) PROVE IInv'
    BY <1>3, RefuseOnce, RateLimitOnce, StartOnce, HandlerOnce, PreAckOnce, BrokerCallOnce, ChejanOnce
       DEF HandlerStep
  <1>4. CASE GatewayStep
    BY <1>3, <1>4, DisconnectOnce, CrashOnce DEF GatewayStep
  <1>5. CASE UNCHANGED vars
    BY <1>5, LoseOnce
  <1> QED BY <1>1, <1>2, <1>4, <1>5 DEF Next

LEMMA SpecOnce == Spec => []IInv
  BY InitOnce, NextOnce, PTL DEF Spec

\* The permission to call the broker is in one place at a time, whatever is
\* lost, retried, replayed or restarted.
THEOREM ClaimIsSingle == Spec => []SingleClaim
  <1>1. IInv => SingleClaim
    BY DEF IInv
  <1> QED BY SpecOnce, <1>1, PTL

\* Core's commands, the Gateway's handler and its crashes never lead to a second
\* SendOrder call for one idempotency key.
THEOREM AtMostOnce == Spec => []AtMostOneCallPerKey
  <1>1. IInv => AtMostOneCallPerKey
    <2> SUFFICES ASSUME IInv, NEW c \in Commands, NEW d \in Commands, KeyOf[c] = KeyOf[d], calls[c] > 0
                 PROVE  calls[c] = 1 /\ (d # c => calls[d] = 0)
      BY DEF AtMostOneCallPerKey
    <2>1. calls[c] \in Nat /\ calls[d] \in Nat /\ calls[c] <= 1
      BY DEF IInv, TypeOK, SingleClaim
    <2>2. HasRow(c) /\ (calls[d] > 0 => HasRow(d))
      BY DEF IInv, RowBeforeAnyTrace, Traced
    <2> QED BY <2>1, <2>2 DEF IInv, OneRowPerKey
  <1> QED BY SpecOnce, <1>1, PTL

\* Every broker call is preceded by a committed pre-ack of its command.
THEOREM PreAckFirst == Spec => []CallOnlyAfterDurablePreAck
  <1>1. IInv => CallOnlyAfterDurablePreAck
    BY DEF IInv, PreAckBeforeCall, CallOnlyAfterDurablePreAck
  <1> QED BY SpecOnce, <1>1, PTL

-----------------------------------------------------------------------------
(***************************************************************************)
(* An order at the broker stays visible to Core, and Core's boundary rows   *)
(* are complete.                                                            *)
(*                                                                         *)
(* Three lemmas say what a step of any party does to the rows of a command  *)
(* (RowStep), to the permission to call the broker (PlaceStep) and to the   *)
(* events that wait to be posted (OutboxStep).  The invariant is inductive  *)
(* by these alone.                                                          *)
(***************************************************************************)

Visible == {"PRE_ACK_RECORDED", "UNCONFIRMED", "BROKER_ACCEPTED", "CHEJAN_CONFIRMED"}

\* The permission to call the broker for c is not in the handler.
Elsewhere(c) == Unclaimed(c) \/ c \in response \/ InInbox(c) \/ Unrequeued(c)

\* The handler has c and Core has not confirmed its pre-ack.
InUnsentHand(c) == hand.cmd = c /\ hand.stage \in {"started", "journaled"}

\* The handler has Core's confirmation, and may have called the broker.
InSentHand(c) == hand.cmd = c /\ hand.stage \in {"confirmed", "called"}

PreAckWords == {"order_pre_ack", "order_pre_ack_accepted"}
BrokerWords == {"command_ack", "chejan"}

\* An event of one of these types about c waits to be posted.
Queued(types, c) == \E i \in 1 .. Len(outbox) : outbox[i].type \in types /\ outbox[i].cmd = c

-----------------------------------------------------------------------------
(* The inductive invariant *)

AttemptHasRow == \A c \in Commands : attempts[c] > 0 => HasRow(c)

\* A recorded pre-ack has moved the row to its rank at least.
PreAckRanks == \A c \in Commands : boundary[c].preAck => Rank(boundary[c].state) >= 30

\* Broker progress is recorded, remembered or reported only after the pre-ack.
ProgressHasPreAck ==
  \A c \in Commands :
    \/ boundary[c].state \in DurablePreAckStates \/ status[c] \in DurablePreAckStates
    \/ c \in pending \/ journal[c] = "BROKER_ACCEPTED" \/ Queued(BrokerWords, c)
    => boundary[c].preAck

\* A command that was not sent has no pre-ack, recorded or on its way.
UnsentIsClean ==
  \A c \in Commands :
    /\ Elsewhere(c) \/ InUnsentHand(c) =>
         ~boundary[c].preAck /\ ~Queued(PreAckWords, c) /\ \A e \in latePreAck : e.cmd # c
    /\ Elsewhere(c) \/ hand = At(c, "started") => journal[c] = "NONE"

\* The broker accepts only what it was asked, and not what it refused.
AcceptedWasCalled ==
  \A c \in accepted : calls[c] > 0 /\ ~(hand.cmd = c /\ hand.result = "refused")

\* A failure is reported only when the command is at an end and not at the broker.
FailedIsOver ==
  faults = 0 => \A c \in Commands :
    Queued({"command_failed"}, c) => ~Elsewhere(c) /\ hand.cmd # c /\ c \notin accepted

\* What the handler is sending, or has sent, looks that way to Core.
SentIsVisible ==
  faults = 0 => \A c \in Commands : c \in accepted \/ InSentHand(c) => status[c] \in Visible

VInv ==
  /\ AttemptHasRow /\ PreAckRanks /\ ProgressHasPreAck /\ UnsentIsClean
  /\ AcceptedWasCalled /\ FailedIsOver /\ SentIsVisible

-----------------------------------------------------------------------------
(* What a step does to the rows of a command *)

\* Core records an event of this type about c, which it has from the Gateway's
\* queue or from the synchronous or late pre-ack request.
Told(type, c) ==
  \/ Queued({type}, c)
  \/ type = "order_pre_ack" /\ \E e \in latePreAck : e.cmd = c
  \/ type = "order_pre_ack" /\ hand = At(c, "journaled") /\ (hand' = Idle \/ hand' = At(c, "confirmed"))

RowKept(c) == status'[c] = status[c] /\ boundary'[c] = boundary[c]

RowMoves(c) ==
  \/ RowKept(c)
  \/ status[c] \in {"NONE", "QUEUED"} /\ status'[c] \in {"QUEUED", "EXPIRED"} /\ boundary'[c] = boundary[c]
  \/ /\ status[c] \in InFlight /\ status'[c] = "UNCONFIRMED"
     /\ boundary'[c] = UpsertBoundary(boundary[c], "UNCONFIRMED", FALSE)
  \/ /\ status[c] = "QUEUED" /\ status'[c] = "CLAIMED"
     /\ boundary'[c] = UpsertBoundary(boundary[c], "CLAIMED", FALSE)
  \/ \E type \in EventTypes :
       /\ Told(type, c)
       /\ boundary'[c] = BoundaryAfterEvent(boundary[c], type)
       /\ status'[c] = StatusAfterEvent(status[c], type, boundary'[c])

\* Recording an event moves the rows of its command only.
LEMMA RecordMoves ==
  ASSUME TypeOK, NEW e \in Events, Record(e), NEW c \in Commands, c = e.cmd => Told(e.type, c)
  PROVE  RowMoves(c)
<1> DEFINE b == BoundaryAfterEvent(boundary[e.cmd], e.type)
<1>1. e.cmd \in Commands /\ e.type \in EventTypes
  BY DEF Events
<1>2. CASE IsDuplicate(e)
  BY <1>2 DEF Record, RowMoves, RowKept
<1>3. CASE ~IsDuplicate(e)
  <2>1. /\ boundary' = [boundary EXCEPT ![e.cmd] = b]
        /\ status' = [status EXCEPT ![e.cmd] = StatusAfterEvent(status[e.cmd], e.type, b)]
    BY <1>3 DEF Record
  <2> HIDE DEF b
  <2>2. CASE c # e.cmd
    BY <2>1, <2>2 DEF RowMoves, RowKept, TypeOK
  <2>3. CASE c = e.cmd
    <3>1. boundary'[c] = b /\ status'[c] = StatusAfterEvent(status[c], e.type, boundary'[c])
      BY <1>1, <2>1, <2>3 DEF TypeOK
    <3> QED  BY <1>1, <2>3, <3>1 DEF RowMoves, b
  <2> QED  BY <2>2, <2>3
<1> QED  BY <1>2, <1>3

LEMMA RowStep ==
  ASSUME TypeOK, [Next]_vars, NEW c \in Commands
  PROVE  RowMoves(c)
<1>1. ASSUME UNCHANGED <<status, boundary>>
      PROVE  RowMoves(c)
  BY <1>1 DEF RowMoves, RowKept
<1>2. CASE CoreStep
  <2>1. ASSUME NEW d \in Commands, EnqueueCommand(d)
        PROVE  RowMoves(c)
    BY <2>1 DEF EnqueueCommand, RowMoves, RowKept, TypeOK
  <2>2. ASSUME NEW S \in SUBSET Commands, ExpireStaleGatewayCommands(S)
        PROVE  RowMoves(c)
    BY <2>2 DEF ExpireStaleGatewayCommands, RowMoves, RowKept, InFlight
  <2>3. ASSUME NEW S \in SUBSET Commands, DispatchReadyCommands(S)
        PROVE  RowMoves(c)
    BY <2>3 DEF DispatchReadyCommands, Dispatchable, RowMoves, RowKept
  <2>4. ASSUME NEW d \in Commands, PassExpiry(d)
        PROVE  RowMoves(c)
    BY <1>1, <2>4 DEF PassExpiry
  <2> QED  BY <1>2, <2>1, <2>2, <2>3, <2>4 DEF CoreStep
<1>3. CASE WireStep
  <2>1. ASSUME NEW e \in latePreAck, CommitLatePreAck(e)
        PROVE  RowMoves(c)
    <3>1. e \in Events /\ e.type = "order_pre_ack" /\ Record(e)
      BY <2>1 DEF CommitLatePreAck, TypeOK
    <3>2. c = e.cmd => Told(e.type, c)
      BY <3>1 DEF Told
    <3> QED  BY <3>1, <3>2, RecordMoves
  <2>2. ASSUME NEW answered \in BOOLEAN, PostEvent(answered)
        PROVE  RowMoves(c)
    <3>1. Head(outbox) \in Events /\ Record(Head(outbox)) /\ Head(outbox) = outbox[1] /\ 1 \in 1 .. Len(outbox)
      BY <2>2 DEF PostEvent, TypeOK
    <3>2. c = Head(outbox).cmd => Told(Head(outbox).type, c)
      BY <3>1 DEF Told, Queued
    <3> QED  BY <3>1, <3>2, RecordMoves
  <2> QED  BY <1>1, <1>3, <2>1, <2>2 DEF WireStep, DeliverResponse, LoseResponse, coreVars
<1>4. ASSUME NEW d \in Commands, HandlerStep(d)
      PROVE  RowMoves(c)
  <2>1. ASSUME Record(EventOf("order_pre_ack", d)), hand = At(d, "journaled"),
               hand' = Idle \/ hand' = At(d, "confirmed")
        PROVE  RowMoves(c)
    <3> DEFINE e == EventOf("order_pre_ack", d)
    <3>1. e \in Events /\ e.type = "order_pre_ack" /\ e.cmd = d
      BY EventOfType DEF EventOf, Event, EventTypes
    <3>2. Record(e)
      BY <2>1
    <3> HIDE DEF e
    <3>3. c = e.cmd => Told(e.type, c)
      BY <2>1, <3>1 DEF Told
    <3> QED  BY <3>1, <3>2, <3>3, RecordMoves
  <2>2. CASE PreAckConfirmed(d)
    BY <2>1, <2>2 DEF PreAckConfirmed
  <2>3. ASSUME NEW fate \in {"lost", "committed", "late"}, NEW written \in BOOLEAN,
               PreAckUnanswered(d, fate, written)
        PROVE  RowMoves(c)
    BY <1>1, <2>1, <2>3 DEF PreAckUnanswered, Finish
  <2> QED  BY <1>1, <1>4, <2>2, <2>3 DEF HandlerStep, RefuseCommand, RateLimitCommand, StartCommand,
              JournalPreAck, JournalPreAckFails, BrokerCall, ReportResult, ResultWriteFails,
              ReportUnconfirmed, UnconfirmedWriteFails, LinkedChejan, coreVars
<1>5. CASE SessionDisconnected \/ UNCHANGED vars
  BY <1>1, <1>5 DEF SessionDisconnected, vars, coreVars
<1>6. ASSUME NEW order \in Arrangements(Replayed), NEW inTransit \in BOOLEAN,
             CrashAndRestart(order, inTransit)
      PROVE  RowMoves(c)
  BY <1>1, <1>6 DEF CrashAndRestart, coreVars
<1> QED  BY <1>2, <1>3, <1>4, <1>5, <1>6 DEF Next, GatewayStep

-----------------------------------------------------------------------------
(* What a step adds to the Gateway's queue of events *)

\* Why the Gateway may report this about c in a step.
Said(type, c) ==
  \/ type \in {"command_started", "rate_limited"} /\ InInbox(c) /\ hand = Idle
  \/ /\ type = "command_failed" /\ hand' = Idle /\ faults' >= faults /\ accepted' = accepted
     /\ \/ InInbox(c) /\ hand = Idle /\ ~Elsewhere(c)'
        \/ hand.cmd = c /\ (hand.stage # "called" \/ hand.result = "refused" \/ faults' > 0)
  \/ type \in {"command_ack", "order_broker_unconfirmed"} /\ hand.cmd = c /\ hand.stage = "called"
  \/ type = "chejan" /\ c \in pending
  \/ type = "order_pre_ack" /\ journal[c] = "PRE_ACK" /\ hand' = Idle
  \/ type = "order_pre_ack_accepted" /\ journal[c] = "BROKER_ACCEPTED" /\ hand' = Idle

OutboxSaid ==
  \A i \in 1 .. Len(outbox') :
    \/ \E j \in 1 .. Len(outbox) : outbox'[i] = outbox[j]
    \/ \E type \in EventTypes, c \in Commands :
         outbox'[i].type = type /\ outbox'[i].cmd = c /\ Said(type, c)

LEMMA SaidByNew ==
  ASSUME NEW New, OutboxFrom(New),
         \A e \in New : e.type \in EventTypes /\ e.cmd \in Commands /\ Said(e.type, e.cmd)
  PROVE  OutboxSaid
BY DEF OutboxFrom, OutboxSaid

\* The handler ends, or goes on, with one event.
LEMMA SaidByHandler ==
  ASSUME IInv, NEW c \in Commands, NEW type \in EventTypes,
         outbox' = Append(outbox, EventOf(type, c)), Said(type, c)
  PROVE  OutboxSaid
<1> DEFINE e == EventOf(type, c)
<1>1. e \in Events /\ e.type = type /\ e.cmd = c
  BY EventOfType DEF EventOf, Event, IInv
<1>2. outbox' = Append(outbox, e)
  OBVIOUS
<1> HIDE DEF e
<1>3. OutboxFrom({e})
  BY <1>1, <1>2, OutboxAppended DEF IInv
<1> QED  BY <1>1, <1>3, SaidByNew

\* A command leaves the inbox for good when the step reports only failures.
LEMMA FailedFromInbox ==
  ASSUME IInv, UNCHANGED <<status, attempts, seen>>, response' \subseteq response, NEW New, OutboxFrom(New),
         \A e \in New : e.type # "rate_limited",
         NEW c \in Commands, InInbox(c), ~InInbox(c)'
  PROVE  ~Elsewhere(c)'
<1>1. ~Unclaimed(c) /\ c \notin response /\ ~Unrequeued(c) /\ RateLimitedCurrent
  BY DEF IInv, SingleClaim
<1>2. ~Unrequeued(c)'
  BY <1>1, NoNewRequeue
<1> QED  BY <1>1, <1>2 DEF Elsewhere, Unclaimed

LEMMA OutboxStep ==
  ASSUME IInv, [Next]_vars
  PROVE  OutboxSaid
<1>1. ASSUME UNCHANGED outbox
      PROVE  OutboxSaid
  BY <1>1 DEF OutboxSaid
<1>2. CASE CoreStep
  BY <1>1, <1>2 DEF CoreStep, EnqueueCommand, PassExpiry, ExpireStaleGatewayCommands,
     DispatchReadyCommands, gatewayVars
<1>3. CASE WireStep
  <2>1. ASSUME NEW answered \in BOOLEAN, PostEvent(answered)
        PROVE  OutboxSaid
    <3>1. outbox # <<>> /\ outbox' \in {outbox, Tail(outbox)}
      BY <2>1 DEF PostEvent
    <3> QED  BY <1>1, <3>1, OutboxTail, SaidByNew DEF IInv
  <2> QED  BY <1>1, <1>3, <2>1 DEF WireStep, DeliverResponse, LoseResponse, CommitLatePreAck, gatewayVars
<1>4. ASSUME NEW c \in Commands, HandlerStep(c)
      PROVE  OutboxSaid
  <2>0. faults \in Nat
    BY DEF IInv, TypeOK
  <2>1. CASE RefuseCommand(c)
    <3> DEFINE e == EventOf("command_failed", c)
    <3>1. /\ UNCHANGED <<status, attempts, seen, response, faults, accepted>>
          /\ TakeCommand(c) /\ hand' = Idle /\ outbox' = Append(outbox, e)
      BY <2>1 DEF RefuseCommand, Finish, Emit, coreVars, wireVars, durableVars, brokerVars
    <3>2. InInbox(c) /\ ~InInbox(c)' /\ hand = Idle
      BY <3>1, TakeOnce
    <3>3. e \in Events /\ e.type # "rate_limited"
      BY <3>2, HandlerEvent DEF EventTypes
    <3>4. OutboxFrom({e})
      BY <3>1, <3>3, OutboxAppended DEF IInv
    <3>5. ~Elsewhere(c)'
      <4> HIDE DEF e
      <4> QED  BY <3>1, <3>2, <3>3, <3>4, FailedFromInbox
    <3>6. Said("command_failed", c)
      BY <2>0, <3>1, <3>2, <3>5 DEF Said
    <3> QED  BY <3>1, <3>6, SaidByHandler DEF EventTypes
  <2>2. CASE RateLimitCommand(c)
    <3> DEFINE started == EventOf("command_started", c)
               limited == EventOf("rate_limited", c)
    <3>1. TakeCommand(c) /\ outbox' = outbox \o <<started, limited>>
      BY <2>2 DEF RateLimitCommand
    <3>2. InInbox(c) /\ hand = Idle
      BY <3>1, TakeOnce
    <3>3. /\ started \in Events /\ started.type = "command_started" /\ started.cmd = c
          /\ limited \in Events /\ limited.type = "rate_limited" /\ limited.cmd = c
      BY <3>2, HandlerEvent DEF EventTypes
    <3> HIDE DEF started, limited
    <3>4. OutboxFrom({started, limited})
      <4>1. outbox \in Seq(Events) /\ <<started, limited>> \in Seq(Events)
        BY <3>3 DEF IInv, TypeOK
      <4>2. \A k \in 1 .. Len(<<started, limited>>) : <<started, limited>>[k] \in {started, limited}
        OBVIOUS
      <4> QED  BY <3>1, <4>1, <4>2, ConcatElements DEF OutboxFrom
    <3>5. Said("command_started", c) /\ Said("rate_limited", c)
      BY <3>2 DEF Said
    <3> QED  BY <3>3, <3>4, <3>5, SaidByNew DEF EventTypes
  <2>3. CASE StartCommand(c)
    <3>1. TakeCommand(c) /\ outbox' = Append(outbox, EventOf("command_started", c))
      BY <2>3 DEF StartCommand, Emit
    <3>2. Said("command_started", c)
      BY <3>1, TakeOnce DEF Said
    <3> QED  BY <3>1, <3>2, SaidByHandler DEF EventTypes
  <2>4. CASE JournalPreAckFails(c) \/ \E fate \in {"lost", "committed", "late"}, written \in BOOLEAN :
                                          PreAckUnanswered(c, fate, written)
    <3>1. /\ outbox' = Append(outbox, EventOf("command_failed", c)) /\ hand' = Idle /\ accepted' = accepted
          /\ hand.cmd = c /\ hand.stage \in {"started", "journaled"}
      BY <2>4 DEF JournalPreAckFails, PreAckUnanswered, Finish, Emit, At, brokerVars
    <3>2. faults' >= faults
      BY <2>0, <2>4 DEF JournalPreAckFails, PreAckUnanswered
    <3>3. Said("command_failed", c)
      BY <3>1, <3>2 DEF Said
    <3> QED  BY <3>1, <3>3, SaidByHandler DEF EventTypes
  <2>5. CASE ReportResult(c)
    <3>1. CASE hand.result = "ok"
      <4>1. Said("command_ack", c) /\ outbox' = Append(outbox, EventOf("command_ack", c))
        BY <2>5, <3>1 DEF ReportResult, Finish, Emit, Said
      <4> QED  BY <4>1, SaidByHandler DEF EventTypes
    <3>2. CASE hand.result # "ok"
      <4>1. Said("command_failed", c) /\ outbox' = Append(outbox, EventOf("command_failed", c))
        BY <2>0, <2>5, <3>2 DEF ReportResult, Finish, Emit, Said, brokerVars
      <4> QED  BY <4>1, SaidByHandler DEF EventTypes
    <3> QED  BY <3>1, <3>2
  <2>6. CASE ReportUnconfirmed(c)
    <3>1. /\ Said("order_broker_unconfirmed", c)
          /\ outbox' = Append(outbox, EventOf("order_broker_unconfirmed", c))
      BY <2>6 DEF ReportUnconfirmed, Finish, Emit, Said
    <3> QED  BY <3>1, SaidByHandler DEF EventTypes
  <2>7. CASE UnconfirmedWriteFails(c)
    <3>1. faults' > 0 /\ faults' >= faults
      BY <2>0, <2>7 DEF UnconfirmedWriteFails
    <3>2. Said("command_failed", c) /\ outbox' = Append(outbox, EventOf("command_failed", c))
      BY <2>7, <3>1 DEF UnconfirmedWriteFails, Finish, Emit, Said, brokerVars
    <3> QED  BY <3>2, SaidByHandler DEF EventTypes
  <2>8. CASE LinkedChejan(c)
    <3>1. Said("chejan", c) /\ outbox' = Append(outbox, EventOf("chejan", c))
      BY <2>8 DEF LinkedChejan, Emit, Said
    <3> QED  BY <3>1, SaidByHandler DEF EventTypes
  <2>9. CASE UNCHANGED outbox
    BY <1>1, <2>9
  <2> QED  BY <1>4, <2>1, <2>2, <2>3, <2>4, <2>5, <2>6, <2>7, <2>8, <2>9 DEF HandlerStep, JournalPreAck,
              PreAckConfirmed, BrokerCall, ResultWriteFails
<1>5. CASE SessionDisconnected
  <2> DEFINE ev(i) == EventOf("command_failed", inbox[i])
             New == {ev(i) : i \in 1 .. Len(inbox)}
             failures == [i \in 1 .. Len(inbox) |-> ev(i)]
  <2>1. /\ UNCHANGED <<status, attempts, seen, response, hand, faults, accepted>> /\ hand = Idle
        /\ outbox' = outbox \o failures /\ inbox' = <<>>
    BY <1>5 DEF SessionDisconnected, coreVars, wireVars, durableVars, brokerVars
  <2>2. inbox \in Seq(Commands) /\ outbox \in Seq(Events) /\ Len(inbox) \in Nat /\ faults \in Nat
    BY DEF IInv, TypeOK
  <2>3. \A i \in 1 .. Len(inbox) : inbox[i] \in Commands /\ InInbox(inbox[i])
    BY <2>2 DEF InInbox
  <2>4. \A i \in 1 .. Len(inbox) : ev(i) \in Events /\ ev(i).type = "command_failed" /\ ev(i).cmd = inbox[i]
    BY <2>3, HandlerEvent DEF EventTypes
  <2>5. OutboxFrom(New)
    <3> HIDE DEF ev
    <3>1. failures \in Seq(Events) /\ Len(failures) = Len(inbox)
      BY <2>2, <2>4
    <3>2. \A k \in 1 .. Len(failures) : failures[k] \in New
      BY <3>1
    <3> HIDE DEF New, failures
    <3> QED  BY <2>1, <2>2, <3>1, <3>2, ConcatElements DEF OutboxFrom
  <2>6. \A d \in Commands : ~InInbox(d)'
    BY <2>1 DEF InInbox
  <2>7. \A e \in New : e.type = "command_failed" /\ e.cmd \in Commands /\ InInbox(e.cmd)
    <3> HIDE DEF ev
    <3> QED  BY <2>3, <2>4
  <2> HIDE DEF New, failures
  <2>8. \A d \in Commands : InInbox(d) => ~Elsewhere(d)'
    BY <2>1, <2>5, <2>6, <2>7, FailedFromInbox
  <2>9. \A e \in New : Said(e.type, e.cmd)
    BY <2>1, <2>2, <2>7, <2>8 DEF Said
  <2> QED  BY <2>5, <2>7, <2>9, SaidByNew DEF EventTypes
<1>6. ASSUME NEW order \in Arrangements(Replayed), NEW inTransit \in BOOLEAN,
             CrashAndRestart(order, inTransit)
      PROVE  OutboxSaid
  <2> DEFINE ev(i) == RecoveryEvent(order[i], crashes + 1)
  <2>1. hand' = Idle /\ outbox' = [i \in 1 .. Len(order) |-> ev(i)]
    BY <1>6 DEF CrashAndRestart
  <2>2. IsFiniteSet(Replayed) /\ Replayed \subseteq Commands
    BY ConstantsAssumption, FS_Subset DEF Replayed
  <2>3. order \in Seq(Replayed) /\ Len(order) \in Nat
    BY <2>2, ArrangementType
  <2>4. \A i \in 1 .. Len(order) : order[i] \in Replayed
    BY <2>3
  <2>5. \A i \in 1 .. Len(order) :
          ev(i).type \in EventTypes /\ ev(i).cmd \in Commands /\ Said(ev(i).type, ev(i).cmd)
    BY <2>1, <2>4 DEF RecoveryEvent, Event, EventTypes, Replayed, Said
  <2>6. Len(outbox') = Len(order) /\ \A i \in 1 .. Len(order) : outbox'[i] = ev(i)
    <3> HIDE DEF ev
    <3> QED  BY <2>1, <2>3
  <2> HIDE DEF ev
  <2> QED  BY <2>5, <2>6 DEF OutboxSaid
<1>7. CASE UNCHANGED vars
  BY <1>1, <1>7 DEF vars
<1> QED  BY <1>2, <1>3, <1>4, <1>5, <1>6, <1>7 DEF Next, GatewayStep

-----------------------------------------------------------------------------
(* What a step does to the permission to call the broker *)

\* A command waits to be claimed only if it did, or if Core records its
\* rate_limited event.
LEMMA UnclaimedStep ==
  ASSUME IInv, [Next]_vars, NEW c \in Commands, Unclaimed(c)'
  PROVE  Unclaimed(c) \/ Unrequeued(c)
<1>1. ASSUME UNCHANGED status
      PROVE  Unclaimed(c)
  BY <1>1 DEF Unclaimed
<1>2. ASSUME NEW e \in Events, Record(e), HasRow(e.cmd), e.type # "rate_limited"
      PROVE  Unclaimed(c)
  BY <1>2, RecordKeepsRows
<1>3. CASE CoreStep
  BY <1>3 DEF CoreStep, EnqueueCommand, PassExpiry, ExpireStaleGatewayCommands, DispatchReadyCommands,
     IInv, TypeOK, Unclaimed
<1>4. CASE WireStep
  <2>1. ASSUME NEW e \in latePreAck, CommitLatePreAck(e)
        PROVE  Unclaimed(c)
    <3>1. e \in Events /\ e.type # "rate_limited" /\ HasRow(e.cmd) /\ Record(e)
      BY <2>1 DEF CommitLatePreAck, IInv, TypeOK, RowBeforeAnyTrace
    <3> QED  BY <1>2, <3>1
  <2>2. ASSUME NEW answered \in BOOLEAN, PostEvent(answered)
        PROVE  Unclaimed(c) \/ Unrequeued(c)
    <3>1. Head(outbox) \in Events /\ Record(Head(outbox)) /\ Head(outbox) = outbox[1] /\ 1 \in 1 .. Len(outbox)
      BY <2>2 DEF PostEvent, IInv, TypeOK
    <3>2. HasRow(Head(outbox).cmd)
      BY <3>1 DEF IInv, RowBeforeAnyTrace
    <3>3. \/ Unclaimed(c)
          \/ c = Head(outbox).cmd /\ Head(outbox).type = "rate_limited" /\ Head(outbox) \notin seen
      BY <3>1, <3>2, RecordKeepsRows
    <3> QED  BY <3>1, <3>3 DEF Unrequeued
  <2> QED  BY <1>1, <1>4, <2>1, <2>2 DEF WireStep, DeliverResponse, LoseResponse, coreVars
<1>5. ASSUME NEW d \in Commands, HandlerStep(d)
      PROVE  Unclaimed(c)
  <2>1. ASSUME Record(EventOf("order_pre_ack", d)), hand = At(d, "journaled")
        PROVE  Unclaimed(c)
    <3> DEFINE e == EventOf("order_pre_ack", d)
    <3>1. e \in Events /\ e.type # "rate_limited" /\ HasRow(e.cmd)
      BY <2>1, HandlerEvent DEF At, EventTypes
    <3>2. Record(e)
      BY <2>1
    <3> HIDE DEF e
    <3> QED  BY <1>2, <3>1, <3>2
  <2>2. CASE PreAckConfirmed(d)
    BY <2>1, <2>2 DEF PreAckConfirmed
  <2>3. ASSUME NEW fate \in {"lost", "committed", "late"}, NEW written \in BOOLEAN,
               PreAckUnanswered(d, fate, written)
        PROVE  Unclaimed(c)
    BY <1>1, <2>1, <2>3 DEF PreAckUnanswered
  <2> QED  BY <1>1, <1>5, <2>2, <2>3 DEF HandlerStep, RefuseCommand, RateLimitCommand, StartCommand,
              JournalPreAck, JournalPreAckFails, BrokerCall, ReportResult, ResultWriteFails,
              ReportUnconfirmed, UnconfirmedWriteFails, LinkedChejan, coreVars
<1>6. CASE SessionDisconnected \/ UNCHANGED vars
  BY <1>1, <1>6 DEF SessionDisconnected, vars, coreVars
<1>7. ASSUME NEW order \in Arrangements(Replayed), NEW inTransit \in BOOLEAN,
             CrashAndRestart(order, inTransit)
      PROVE  Unclaimed(c)
  BY <1>1, <1>7 DEF CrashAndRestart, coreVars
<1> QED  BY <1>3, <1>4, <1>5, <1>6, <1>7 DEF Next, GatewayStep

\* A poll answers with queued commands, and the inbox takes them from the answer.
LEMMA PolledStep ==
  ASSUME IInv, [Next]_vars, NEW c \in Commands
  PROVE  /\ c \in response' => c \in response \/ Unclaimed(c)
         /\ InInbox(c)' => InInbox(c) \/ c \in response
         /\ seen \subseteq seen'
<1> DEFINE P == /\ c \in response' => c \in response \/ Unclaimed(c)
                /\ InInbox(c)' => InInbox(c) \/ c \in response
                /\ seen \subseteq seen'
<1>1. ASSUME UNCHANGED <<response, inbox>>, seen \subseteq seen'
      PROVE  P
  BY <1>1 DEF InInbox
<1>2. CASE CoreStep
  <2>1. ASSUME NEW S \in SUBSET Commands, DispatchReadyCommands(S)
        PROVE  P
    BY <2>1 DEF DispatchReadyCommands, Dispatchable, Unclaimed, InInbox, gatewayVars
  <2> QED  BY <1>1, <1>2, <2>1 DEF CoreStep, EnqueueCommand, PassExpiry, ExpireStaleGatewayCommands,
              wireVars, gatewayVars
<1>3. CASE WireStep
  <2>1. ASSUME NEW order \in Arrangements(response), DeliverResponse(order)
        PROVE  P
    <3>1. response' = {} /\ inbox' = inbox \o order /\ seen' = seen
      BY <2>1 DEF DeliverResponse, coreVars
    <3>2. IsFiniteSet(response) /\ response \subseteq Commands /\ inbox \in Seq(Commands)
      BY ConstantsAssumption, FS_Subset DEF IInv, TypeOK
    <3>3. order \in Seq(Commands) /\ Len(order) = Cardinality(response) /\ Cardinality(response) \in Nat
      BY <3>2, ArrangementType
    <3>4. \A i \in 1 .. Len(order) : order[i] \in response
      BY <3>3 DEF Arrangements
    <3>5. \A i \in 1 .. Len(inbox') :
            \/ i \in 1 .. Len(inbox) /\ inbox'[i] = inbox[i]
            \/ i - Len(inbox) \in 1 .. Len(order) /\ inbox'[i] = order[i - Len(inbox)]
      BY <3>1, <3>2, <3>3, ConcatElements
    <3> QED  BY <3>1, <3>4, <3>5 DEF InInbox
  <2>2. CASE LoseResponse
    BY <2>2 DEF LoseResponse, InInbox, gatewayVars, coreVars
  <2> QED  BY <1>1, <1>3, <2>1, <2>2 DEF WireStep, CommitLatePreAck, PostEvent, Record, wireVars, gatewayVars
<1>4. ASSUME NEW d \in Commands, HandlerStep(d)
      PROVE  P
  <2>1. CASE RefuseCommand(d) \/ RateLimitCommand(d) \/ StartCommand(d)
    <3>1. TakeCommand(d) /\ UNCHANGED <<response, seen>>
      BY <2>1 DEF RefuseCommand, RateLimitCommand, StartCommand, wireVars, coreVars
    <3> QED  BY <3>1, TakeOnce
  <2>2. CASE \E fate \in {"lost", "committed", "late"}, written \in BOOLEAN : PreAckUnanswered(d, fate, written)
    BY <1>1, <2>2 DEF PreAckUnanswered, Record
  <2> QED  BY <1>1, <1>4, <2>1, <2>2 DEF HandlerStep, JournalPreAck, JournalPreAckFails, PreAckConfirmed, Record,
              BrokerCall, ReportResult, ResultWriteFails, ReportUnconfirmed, UnconfirmedWriteFails,
              LinkedChejan, coreVars, wireVars
<1>5. CASE SessionDisconnected
  BY <1>5 DEF SessionDisconnected, InInbox, coreVars, wireVars
<1>6. ASSUME NEW order \in Arrangements(Replayed), NEW inTransit \in BOOLEAN,
             CrashAndRestart(order, inTransit)
      PROVE  P
  BY <1>6 DEF CrashAndRestart, InInbox, coreVars
<1>7. CASE UNCHANGED vars
  BY <1>1, <1>7 DEF vars
<1> QED  BY <1>2, <1>3, <1>4, <1>5, <1>6, <1>7 DEF Next, GatewayStep

\* A permission that has left the queues for the handler does not come back.
LEMMA ElsewhereStep ==
  ASSUME IInv, [Next]_vars, NEW c \in Commands, Elsewhere(c)'
  PROVE  Elsewhere(c)
<1>1. ASSUME Unrequeued(c)'
      PROVE  Unrequeued(c) \/ InInbox(c)
  <2>1. PICK i \in 1 .. Len(outbox') : outbox'[i].type = "rate_limited" /\ outbox'[i].cmd = c /\ outbox'[i] \notin seen'
    BY <1>1 DEF Unrequeued
  <2>2. CASE \E j \in 1 .. Len(outbox) : outbox'[i] = outbox[j]
    BY <2>1, <2>2, PolledStep DEF Unrequeued
  <2>3. CASE Said("rate_limited", c)
    BY <2>3 DEF Said
  <2> QED  BY <2>1, <2>2, <2>3, OutboxStep DEF OutboxSaid
<1>2. Unclaimed(c)' => Elsewhere(c)
  BY UnclaimedStep DEF Elsewhere
<1>3. c \in response' \/ InInbox(c)' => Elsewhere(c)
  BY PolledStep DEF Elsewhere
<1> QED  BY <1>1, <1>2, <1>3 DEF Elsewhere

\* How the handler gets to a command, and goes on with it to the broker.
HandMoves(c) ==
  \/ hand'.cmd # c
  \/ hand' = hand
  \/ hand' = At(c, "started") /\ InInbox(c)
  \/ hand = At(c, "started") /\ hand' = At(c, "journaled")
  \/ hand = At(c, "journaled") /\ hand' = At(c, "confirmed") /\ boundary'[c].preAck
  \/ /\ InSentHand(c) /\ hand'.cmd = c /\ hand'.stage = "called"
     /\ hand'.result = "refused" => hand = At(c, "confirmed") /\ accepted' = accepted

\* What reaches the broker, and what the Gateway remembers of it.
BrokerMoves(c) ==
  /\ calls[c] > 0 => calls'[c] > 0
  /\ c \in accepted' => \/ c \in accepted
                        \/ /\ hand = At(c, "confirmed") /\ hand'.cmd = c
                           /\ hand'.result # "refused" /\ calls'[c] > 0
  /\ faults' = 0 => faults = 0
  /\ c \in pending' => c \in pending \/ InSentHand(c)
  /\ \/ journal'[c] = journal[c]
     \/ hand.cmd = c /\ hand' # At(c, "started") /\ (journal'[c] = "BROKER_ACCEPTED" => InSentHand(c))
  /\ \A e \in latePreAck' : e.cmd = c => e \in latePreAck \/ (InUnsentHand(c) /\ hand' = Idle)

LEMMA PlaceStep ==
  ASSUME IInv, [Next]_vars, NEW c \in Commands
  PROVE  HandMoves(c) /\ BrokerMoves(c)
<1>0. faults \in Nat /\ calls \in [Commands -> Nat] /\ journal \in [Commands -> JournalStatuses]
  BY DEF IInv, TypeOK
<1>1. ASSUME hand' = hand \/ hand' = Idle
      PROVE  HandMoves(c)
  BY <1>1, ConstantsAssumption DEF HandMoves, Idle
<1>2. ASSUME UNCHANGED <<calls, accepted, pending, journal>>, latePreAck' \subseteq latePreAck,
             faults' = faults \/ faults' = faults + 1
      PROVE  BrokerMoves(c)
  BY <1>0, <1>2 DEF BrokerMoves
<1>3. CASE CoreStep
  BY <1>1, <1>2, <1>3 DEF CoreStep, EnqueueCommand, PassExpiry, ExpireStaleGatewayCommands,
     DispatchReadyCommands, wireVars, gatewayVars, durableVars, brokerVars
<1>4. CASE WireStep
  BY <1>1, <1>2, <1>4 DEF WireStep, DeliverResponse, LoseResponse, CommitLatePreAck, PostEvent,
     wireVars, gatewayVars, durableVars, brokerVars
<1>5. ASSUME NEW d \in Commands, HandlerStep(d)
      PROVE  HandMoves(c) /\ BrokerMoves(c)
  <2>1. CASE RefuseCommand(d) \/ RateLimitCommand(d) \/ StartCommand(d)
    <3>1. TakeCommand(d) /\ UNCHANGED <<calls, accepted, pending, journal, latePreAck, faults>>
          /\ hand' \in {Idle, At(d, "started")}
      BY <2>1 DEF RefuseCommand, RateLimitCommand, StartCommand, Finish, wireVars, durableVars, brokerVars
    <3>2. hand' = At(d, "started") => HandMoves(c)
      BY <3>1, TakeOnce DEF HandMoves, At
    <3> QED  BY <1>1, <1>2, <3>1, <3>2
  <2>2. CASE JournalPreAck(d)
    <3>1. HandMoves(c)
      BY <2>2 DEF JournalPreAck, HandMoves, At
    <3>2. BrokerMoves(c)
      BY <1>0, <2>2 DEF JournalPreAck, BrokerMoves, At, wireVars, brokerVars
    <3> QED  BY <3>1, <3>2
  <2>3. CASE JournalPreAckFails(d) \/ UnconfirmedWriteFails(d)
    BY <1>1, <1>2, <2>3 DEF JournalPreAckFails, UnconfirmedWriteFails, Finish, wireVars, brokerVars
  <2>4. CASE PreAckConfirmed(d)
    <3>1. HandMoves(c)
      BY <2>4 DEF PreAckConfirmed, HandMoves, At
    <3> QED  BY <1>2, <2>4, <3>1 DEF PreAckConfirmed, wireVars, durableVars, brokerVars
  <2>5. ASSUME NEW fate \in {"lost", "committed", "late"}, NEW written \in BOOLEAN,
               PreAckUnanswered(d, fate, written)
        PROVE  HandMoves(c) /\ BrokerMoves(c)
    <3> DEFINE e == EventOf("order_pre_ack", d)
    <3>1. /\ hand = At(d, "journaled") /\ hand' = Idle /\ UNCHANGED <<calls, accepted, pending>>
          /\ journal' \in {journal, [journal EXCEPT ![d] = "SEND_FAILED"]}
          /\ faults' = faults \/ faults' = faults + 1
          /\ latePreAck' \subseteq latePreAck \cup {e}
      BY <2>5 DEF PreAckUnanswered, Finish, brokerVars
    <3>2. e.cmd = d
      BY DEF EventOf, Event
    <3> HIDE DEF e
    <3>3. hand.cmd = d /\ hand.stage = "journaled" /\ hand' # At(d, "started")
      BY <3>1 DEF At, Idle
    <3>4. \A x \in latePreAck' : x.cmd = c => x \in latePreAck \/ (InUnsentHand(c) /\ hand' = Idle)
      BY <3>1, <3>2, <3>3 DEF InUnsentHand
    <3>5. journal'[c] = journal[c] \/ (hand.cmd = c /\ hand' # At(c, "started") /\ journal'[c] # "BROKER_ACCEPTED")
      BY <1>0, <3>1, <3>3
    <3> QED  BY <1>0, <1>1, <3>1, <3>4, <3>5 DEF BrokerMoves
  <2>6. ASSUME NEW result \in {"ok", "refused", "raised"}, NEW accepts \in BOOLEAN, BrokerCall(d, result, accepts)
        PROVE  HandMoves(c) /\ BrokerMoves(c)
    <3>1. /\ hand = At(d, "confirmed") /\ hand' = [cmd |-> d, stage |-> "called", result |-> result]
          /\ calls' = [calls EXCEPT ![d] = @ + 1] /\ UNCHANGED <<pending, journal, latePreAck, faults>>
          /\ accepted' = accepted \/ (accepted' = accepted \cup {d} /\ result # "refused")
          /\ result = "refused" => accepted' = accepted
      BY <2>6 DEF BrokerCall, wireVars, durableVars
    <3>2. hand.cmd = d /\ hand.stage = "confirmed" /\ hand'.cmd = d /\ hand'.stage = "called" /\ hand'.result = result
      BY <3>1 DEF At
    <3>3. HandMoves(c)
      BY <3>1, <3>2 DEF HandMoves, InSentHand
    <3>4. BrokerMoves(c)
      BY <1>0, <3>1, <3>2 DEF BrokerMoves
    <3> QED  BY <3>3, <3>4
  <2>7. CASE ReportResult(d) \/ ReportUnconfirmed(d)
    <3>1. /\ hand.cmd = d /\ hand.stage = "called" /\ hand' = Idle /\ UNCHANGED <<calls, accepted, latePreAck, faults>>
          /\ pending' \subseteq pending \cup {d}
          /\ \E word : journal' = [journal EXCEPT ![d] = word]
      BY <2>7 DEF ReportResult, ReportUnconfirmed, Finish, wireVars, brokerVars
    <3>2. InSentHand(d) /\ hand' # At(d, "started")
      BY <3>1 DEF InSentHand, At, Idle
    <3>3. BrokerMoves(c)
      BY <1>0, <3>1, <3>2 DEF BrokerMoves
    <3> QED  BY <1>1, <3>1, <3>3
  <2>8. CASE ResultWriteFails(d)
    <3>1. HandMoves(c)
      BY <2>8 DEF ResultWriteFails, HandMoves, InSentHand
    <3> QED  BY <1>2, <2>8, <3>1 DEF ResultWriteFails, wireVars, brokerVars
  <2>9. CASE LinkedChejan(d)
    <3>1. BrokerMoves(c)
      BY <2>9 DEF LinkedChejan, BrokerMoves, wireVars, durableVars, brokerVars
    <3> QED  BY <1>1, <2>9, <3>1 DEF LinkedChejan
  <2> QED  BY <1>5, <2>1, <2>2, <2>3, <2>4, <2>5, <2>6, <2>7, <2>8, <2>9 DEF HandlerStep
<1>6. CASE SessionDisconnected \/ UNCHANGED vars
  BY <1>1, <1>2, <1>6 DEF SessionDisconnected, vars, wireVars, durableVars, brokerVars
<1>7. ASSUME NEW order \in Arrangements(Replayed), NEW inTransit \in BOOLEAN,
             CrashAndRestart(order, inTransit)
      PROVE  HandMoves(c) /\ BrokerMoves(c)
  <2> DEFINE e == EventOf("order_pre_ack", hand.cmd)
  <2>1. /\ hand' = Idle /\ pending' = {} /\ UNCHANGED <<calls, accepted, journal, faults>>
        /\ latePreAck' \subseteq latePreAck \cup (IF hand.stage = "journaled" THEN {e} ELSE {})
    BY <1>7 DEF CrashAndRestart, brokerVars
  <2>2. e.cmd = hand.cmd
    BY DEF EventOf, Event
  <2> HIDE DEF e
  <2>3. BrokerMoves(c)
    BY <2>1, <2>2 DEF BrokerMoves, InUnsentHand
  <2> QED  BY <1>1, <2>1, <2>3
<1> QED  BY <1>3, <1>4, <1>5, <1>6, <1>7 DEF Next, GatewayStep

\* Only a claim counts an attempt, and it makes the row.
LEMMA AttemptStep ==
  ASSUME IInv, [Next]_vars, NEW c \in Commands
  PROVE  attempts'[c] = attempts[c] \/ HasRow(c)'
<1>1. ASSUME NEW S \in SUBSET Commands, DispatchReadyCommands(S)
      PROVE  attempts'[c] = attempts[c] \/ HasRow(c)'
  <2>1. \A d \in Commands : /\ d \in S => boundary'[d].state \in BoundaryStates
                            /\ d \notin S => attempts'[d] = attempts[d]
    BY <1>1, UpsertAllEffect DEF DispatchReadyCommands, IInv, BoundaryStates
  <2> QED  BY <2>1 DEF HasRow, BoundaryStates
<1>2. CASE CoreStep
  BY <1>1, <1>2 DEF CoreStep, EnqueueCommand, PassExpiry, ExpireStaleGatewayCommands
<1>3. CASE WireStep
  BY <1>3 DEF WireStep, DeliverResponse, LoseResponse, CommitLatePreAck, PostEvent, coreVars
<1>4. ASSUME NEW d \in Commands, HandlerStep(d)
      PROVE  attempts' = attempts
  BY <1>4 DEF HandlerStep, RefuseCommand, RateLimitCommand, StartCommand, JournalPreAck, JournalPreAckFails,
     PreAckConfirmed, PreAckUnanswered, BrokerCall, ReportResult, ResultWriteFails, ReportUnconfirmed,
     UnconfirmedWriteFails, LinkedChejan, coreVars
<1>5. CASE SessionDisconnected \/ UNCHANGED vars
  BY <1>5 DEF SessionDisconnected, vars, coreVars
<1>6. ASSUME NEW order \in Arrangements(Replayed), NEW inTransit \in BOOLEAN,
             CrashAndRestart(order, inTransit)
      PROVE  attempts' = attempts
  BY <1>6 DEF CrashAndRestart, coreVars
<1> QED  BY <1>2, <1>3, <1>4, <1>5, <1>6 DEF Next, GatewayStep

-----------------------------------------------------------------------------
(* The rules of the rows *)

\* Which state a row has after its upsert.
LEMMA UpsertState ==
  ASSUME NEW b \in Boundaries, NEW prop \in BoundaryStates, NEW obs \in BOOLEAN
  PROVE  /\ UpsertBoundary(b, prop, obs).state \in {b.state, prop}
         /\ UpsertBoundary(b, prop, obs).preAck <=> b.preAck \/ obs
         /\ Rank(b.state) <= Rank(UpsertBoundary(b, prop, obs).state)
         /\ prop \in {"PRE_ACK_RECORDED", "BROKER_ACCEPTED"} => Rank(UpsertBoundary(b, prop, obs).state) >= 30
<1>1. b.state \in BoundaryStates \cup {"NONE"} /\ b.preAck \in BOOLEAN
  BY DEF Boundaries
<1>2. UpsertBoundary(b, prop, obs).state = ResolveState(b.state, prop)
  BY DEF UpsertBoundary
<1>3. UpsertBoundary(b, prop, obs).preAck = (b.preAck \/ obs)
  BY DEF UpsertBoundary
<1>4. ResolveState(b.state, prop) \in {b.state, prop}
  BY DEF ResolveState
<1>5. prop \in {"PRE_ACK_RECORDED", "BROKER_ACCEPTED"} => Rank(ResolveState(b.state, prop)) >= 30
  BY <1>1 DEF ResolveState, Rank, BoundaryStates
<1> QED  BY <1>2, <1>3, <1>4, <1>5, UpsertBoundaryMonotone

\* A claim or a timeout records no pre-ack.
LEMMA UnackedUpsert ==
  ASSUME NEW b \in Boundaries, NEW word \in {"UNCONFIRMED", "CLAIMED"}
  PROVE  /\ UpsertBoundary(b, word, FALSE).state \in {b.state, word}
         /\ UpsertBoundary(b, word, FALSE).preAck = b.preAck
<1>1. b.preAck \in BOOLEAN
  BY DEF Boundaries
<1>2. UpsertBoundary(b, word, FALSE).preAck = (b.preAck \/ FALSE)
  BY DEF UpsertBoundary
<1>3. UpsertBoundary(b, word, FALSE).state = ResolveState(b.state, word)
  BY DEF UpsertBoundary
<1> QED  BY <1>1, <1>2, <1>3 DEF ResolveState

LEMMA RankType == \A state : Rank(state) \in Nat
  BY DEF Rank

\* From the pre-ack's rank upward a state is visible.
LEMMA RankIsVisible ==
  ASSUME NEW state, Rank(state) >= 30
  PROVE  state \in Visible
  BY DEF Rank, Visible

\* What an event does to a row.
LEMMA EventState ==
  ASSUME NEW b \in Boundaries, NEW type \in EventTypes
  PROVE  /\ BoundaryAfterEvent(b, type).state \in {b.state, StateForEvent(type)}
         /\ BoundaryAfterEvent(b, type).preAck <=> b.preAck \/ type \in PreAckWords
         /\ Rank(b.state) <= Rank(BoundaryAfterEvent(b, type).state)
         /\ type \in PreAckWords => Rank(BoundaryAfterEvent(b, type).state) >= 30
<1>1. PreAckEvent(type) \in BOOLEAN /\ (PreAckEvent(type) <=> type \in PreAckWords)
  BY DEF PreAckEvent, PreAckWords
<1>2. b.state \in BoundaryStates \cup {"NONE"} /\ b.preAck \in BOOLEAN
  BY DEF Boundaries
<1>3. CASE StateForEvent(type) = "NONE"
  <2>1. BoundaryAfterEvent(b, type) = b /\ type \notin PreAckWords
    BY <1>3 DEF BoundaryAfterEvent, StateForEvent, PreAckWords
  <2>2. Rank(b.state) <= Rank(b.state)
    BY DEF Rank
  <2> QED  BY <2>1, <2>2
<1>4. CASE StateForEvent(type) # "NONE"
  <2>1. /\ StateForEvent(type) \in BoundaryStates
        /\ type \in PreAckWords => StateForEvent(type) \in {"PRE_ACK_RECORDED", "BROKER_ACCEPTED"}
    BY <1>4 DEF StateForEvent, BoundaryStates, EventTypes, PreAckWords
  <2>2. BoundaryAfterEvent(b, type) = UpsertBoundary(b, StateForEvent(type), PreAckEvent(type))
    BY <1>4 DEF BoundaryAfterEvent
  <2> QED  BY <1>1, <2>1, <2>2, UpsertState
<1> QED  BY <1>3, <1>4

-----------------------------------------------------------------------------
(* The invariant is inductive *)

\* A row gets its pre-ack only from a pre-ack event, and then has its rank.
LEMMA PreAckFrom ==
  ASSUME IInv, [Next]_vars, PreAckRanks, NEW c \in Commands, boundary'[c].preAck
  PROVE  /\ Rank(boundary'[c].state) >= 30
         /\ \/ boundary[c].preAck
            \/ \E type \in PreAckWords : Told(type, c) /\ status'[c] = boundary'[c].state
<1>1. boundary[c] \in Boundaries /\ boundary[c].preAck \in BOOLEAN
  BY DEF IInv, TypeOK, Boundaries
<1>3. CASE boundary[c].preAck
  BY <1>1, <1>3, NextType, RankType DEF PreAckRanks, IInv
<1>4. CASE ~boundary[c].preAck
  <2>1. PICK type \in EventTypes : /\ Told(type, c)
                                   /\ boundary'[c] = BoundaryAfterEvent(boundary[c], type)
                                   /\ status'[c] = StatusAfterEvent(status[c], type, boundary'[c])
    BY <1>1, <1>4, RowStep, UnackedUpsert DEF RowMoves, RowKept, IInv
  <2>2. type \in PreAckWords /\ Rank(boundary'[c].state) >= 30
    BY <1>1, <1>4, <2>1, EventState
  <2>3. status'[c] = boundary'[c].state
    BY <2>1, <2>2 DEF StatusAfterEvent, PreAckWords
  <2> QED  BY <2>1, <2>2, <2>3
<1> QED  BY <1>3, <1>4

LEMMA AttemptsKept ==
  ASSUME IInv, [Next]_vars, AttemptHasRow
  PROVE  AttemptHasRow'
<1> SUFFICES ASSUME NEW c \in Commands, attempts'[c] > 0
             PROVE  HasRow(c)'
  BY DEF AttemptHasRow
<1>1. CASE attempts'[c] = attempts[c]
  <2>1. HasRow(c)
    BY <1>1 DEF AttemptHasRow
  <2>2. boundary[c].state \in BoundaryStates
    BY <2>1 DEF HasRow, IInv, TypeOK, Boundaries
  <2>3. Rank(boundary[c].state) <= Rank(boundary'[c].state)
    BY NextType DEF IInv
  <2> QED  BY <2>2, <2>3 DEF HasRow, Rank, BoundaryStates
<1> QED  BY <1>1, AttemptStep

\* Broker progress comes from an event that only a called order sends.
LEMMA ProgressKept ==
  ASSUME IInv, [Next]_vars, PreAckRanks, ProgressHasPreAck
  PROVE  ProgressHasPreAck'
<1> SUFFICES ASSUME NEW c \in Commands, ~boundary'[c].preAck
             PROVE  /\ boundary'[c].state \notin DurablePreAckStates
                    /\ status'[c] \notin DurablePreAckStates
                    /\ c \notin pending' /\ journal'[c] # "BROKER_ACCEPTED" /\ ~Queued(BrokerWords, c)'
  BY DEF ProgressHasPreAck
<1>1. boundary[c] \in Boundaries /\ boundary[c].preAck \in BOOLEAN
  BY DEF IInv, TypeOK, Boundaries
<1>2. ~boundary[c].preAck
  BY NextType DEF IInv
<1>3. /\ boundary[c].state \notin DurablePreAckStates /\ status[c] \notin DurablePreAckStates
      /\ c \notin pending /\ journal[c] # "BROKER_ACCEPTED" /\ ~Queued(BrokerWords, c)
  BY <1>2 DEF ProgressHasPreAck
<1>4. ~InSentHand(c)
  BY <1>2 DEF InSentHand, IInv, PreAckBeforeCall
<1>5. c \notin pending' /\ journal'[c] # "BROKER_ACCEPTED"
  BY <1>3, <1>4, PlaceStep DEF BrokerMoves
<1>6. ~Queued(BrokerWords, c)'
  <2> SUFFICES ASSUME NEW i \in 1 .. Len(outbox'), outbox'[i].type \in BrokerWords, outbox'[i].cmd = c
               PROVE  FALSE
    BY DEF Queued
  <2>1. CASE \E j \in 1 .. Len(outbox) : outbox'[i] = outbox[j]
    BY <1>3, <2>1 DEF Queued
  <2>2. CASE Said(outbox'[i].type, c)
    BY <1>3, <1>4, <2>2 DEF Said, BrokerWords, InSentHand
  <2> QED  BY <2>1, <2>2, OutboxStep DEF OutboxSaid
<1>8. boundary'[c].state \notin DurablePreAckStates
  <2>1. CASE RowKept(c) \/ boundary'[c] = boundary[c]
    BY <1>3, <2>1 DEF RowKept
  <2>2. CASE \E word \in {"UNCONFIRMED", "CLAIMED"} : boundary'[c] = UpsertBoundary(boundary[c], word, FALSE)
    BY <1>1, <1>3, <2>2, UnackedUpsert DEF DurablePreAckStates
  <2>3. ASSUME NEW type \in EventTypes, Told(type, c), boundary'[c] = BoundaryAfterEvent(boundary[c], type)
        PROVE  boundary'[c].state \notin DurablePreAckStates
    <3>1. type \notin PreAckWords
      BY <1>1, <2>3, EventState
    <3>2. type \notin BrokerWords
      BY <1>3, <2>3 DEF Told, Queued, BrokerWords
    <3>3. StateForEvent(type) \notin DurablePreAckStates
      BY <3>1, <3>2 DEF StateForEvent, PreAckWords, BrokerWords, DurablePreAckStates
    <3> QED  BY <1>1, <1>3, <2>3, <3>3, EventState
  <2> QED  BY <2>1, <2>2, <2>3, RowStep DEF RowMoves, IInv
<1>9. status'[c] \notin DurablePreAckStates
  BY <1>3, <1>8, RowStep DEF RowMoves, RowKept, IInv, StatusAfterEvent, EffectiveOrderCommandStatus,
     DurablePreAckStates, RateLimitIgnored, TerminalStatuses
<1> QED  BY <1>5, <1>6, <1>8, <1>9

\* Nobody pre-acks a command that still waits, or that the handler has not sent.
LEMMA UnsentKept ==
  ASSUME IInv, [Next]_vars, PreAckRanks, ProgressHasPreAck, UnsentIsClean
  PROVE  UnsentIsClean'
<1>1. ASSUME NEW c \in Commands, Elsewhere(c) \/ InUnsentHand(c)
      PROVE  /\ ~boundary[c].preAck /\ ~Queued(PreAckWords, c) /\ \A e \in latePreAck : e.cmd # c
             /\ journal[c] # "BROKER_ACCEPTED"
  BY <1>1 DEF UnsentIsClean, ProgressHasPreAck
<1>2. ASSUME NEW c \in Commands, Elsewhere(c)
      PROVE  hand.cmd # c
  BY <1>2 DEF Elsewhere, IInv, SingleClaim
<1>3. ASSUME NEW c \in Commands, Elsewhere(c)' \/ hand' = At(c, "started")
      PROVE  journal'[c] = "NONE"
  <2>1. Elsewhere(c) \/ hand = At(c, "started")
    BY <1>3, ElsewhereStep, PlaceStep DEF HandMoves, Elsewhere, At
  <2>2. journal[c] = "NONE"
    BY <2>1 DEF UnsentIsClean
  <2> QED  BY <1>2, <1>3, <2>2, ElsewhereStep, PlaceStep DEF BrokerMoves
<1>4. ASSUME NEW c \in Commands, Elsewhere(c)' \/ InUnsentHand(c)'
      PROVE  ~boundary'[c].preAck /\ ~Queued(PreAckWords, c)' /\ \A e \in latePreAck' : e.cmd # c
  <2>1. Elsewhere(c) \/ InUnsentHand(c)
    BY <1>4, ElsewhereStep, PlaceStep DEF HandMoves, InUnsentHand, InSentHand, Elsewhere, At
  <2>2. hand' = Idle \/ hand' = At(c, "confirmed") => Elsewhere(c) /\ hand.cmd # c /\ journal[c] = "NONE"
    <3>1. hand' = Idle \/ hand' = At(c, "confirmed") => ~InUnsentHand(c)'
      BY ConstantsAssumption DEF InUnsentHand, Idle, At
    <3> QED  BY <1>2, <1>4, <3>1, ElsewhereStep DEF UnsentIsClean
  <2>3. ~boundary'[c].preAck
    <3> SUFFICES ASSUME boundary'[c].preAck
                 PROVE  FALSE
      OBVIOUS
    <3>1. PICK type \in PreAckWords : Told(type, c)
      BY <1>1, <2>1, PreAckFrom
    <3>2. ~Queued({type}, c)
      BY <1>1, <2>1 DEF Queued
    <3> QED  BY <1>1, <2>1, <2>2, <3>1, <3>2 DEF Told, At
  <2>4. ~Queued(PreAckWords, c)'
    <3> SUFFICES ASSUME NEW i \in 1 .. Len(outbox'), outbox'[i].type \in PreAckWords, outbox'[i].cmd = c
                 PROVE  FALSE
      BY DEF Queued
    <3>1. CASE \E j \in 1 .. Len(outbox) : outbox'[i] = outbox[j]
      BY <1>1, <2>1, <3>1 DEF Queued
    <3>2. CASE Said(outbox'[i].type, c)
      BY <2>2, <3>2 DEF Said, PreAckWords
    <3> QED  BY <3>1, <3>2, OutboxStep DEF OutboxSaid
  <2>5. \A e \in latePreAck' : e.cmd # c
    BY <1>1, <2>1, <2>2, PlaceStep DEF BrokerMoves, InUnsentHand
  <2> QED  BY <2>3, <2>4, <2>5
<1> QED  BY <1>3, <1>4 DEF UnsentIsClean

LEMMA CalledKept ==
  ASSUME IInv, [Next]_vars, AcceptedWasCalled
  PROVE  AcceptedWasCalled'
<1> SUFFICES ASSUME NEW c \in accepted'
             PROVE  calls'[c] > 0 /\ ~(hand'.cmd = c /\ hand'.result = "refused")
  BY DEF AcceptedWasCalled
<1>1. c \in Commands
  BY NextType DEF IInv, TypeOK
<1>2. CASE c \notin accepted
  BY <1>1, <1>2, PlaceStep DEF BrokerMoves
<1>3. CASE c \in accepted
  <2>1. calls[c] > 0 /\ ~(hand.cmd = c /\ hand.result = "refused")
    BY <1>3 DEF AcceptedWasCalled
  <2>2. calls'[c] > 0
    BY <1>1, <2>1, PlaceStep DEF BrokerMoves
  <2>3. hand # At(c, "confirmed")
    BY <1>1, <2>1 DEF IInv, SingleClaim, At
  <2> QED  BY <1>1, <2>1, <2>2, <2>3, PlaceStep DEF HandMoves, At
<1> QED  BY <1>2, <1>3

\* A command that is not called yet is not accepted.
LEMMA FailedKept ==
  ASSUME IInv, [Next]_vars, AcceptedWasCalled, FailedIsOver
  PROVE  FailedIsOver'
<1> SUFFICES ASSUME faults' = 0, NEW c \in Commands, NEW i \in 1 .. Len(outbox'),
                    outbox'[i].type = "command_failed", outbox'[i].cmd = c
             PROVE  ~Elsewhere(c)' /\ hand'.cmd # c /\ c \notin accepted'
  BY DEF FailedIsOver, Queued
<1>1. faults = 0
  BY PlaceStep DEF BrokerMoves
<1>2. CASE \E j \in 1 .. Len(outbox) : outbox'[i] = outbox[j]
  <2>1. Queued({"command_failed"}, c)
    BY <1>2 DEF Queued
  <2>2. ~Elsewhere(c) /\ hand.cmd # c /\ c \notin accepted
    BY <1>1, <2>1 DEF FailedIsOver
  <2>3. ~Elsewhere(c)' /\ ~InInbox(c)
    BY <2>2, ElsewhereStep DEF Elsewhere
  <2> QED  BY <2>2, <2>3, PlaceStep DEF HandMoves, BrokerMoves, InSentHand, At
<1>3. CASE Said("command_failed", c)
  <2>1. hand' = Idle /\ accepted' = accepted
    BY <1>3 DEF Said
  <2>2. hand'.cmd # c
    BY <2>1, ConstantsAssumption DEF Idle
  <2>3. CASE InInbox(c) /\ ~Elsewhere(c)'
    <3>1. calls[c] = 0
      BY <2>3 DEF IInv, SingleClaim
    <3> QED  BY <2>1, <2>2, <2>3, <3>1 DEF AcceptedWasCalled
  <2>4. CASE hand.cmd = c /\ (hand.stage # "called" \/ hand.result = "refused")
    <3>1. c \notin accepted
      BY <2>4 DEF AcceptedWasCalled, IInv, SingleClaim
    <3>2. ~Elsewhere(c)
      BY <2>4 DEF Elsewhere, IInv, SingleClaim
    <3> QED  BY <2>1, <2>2, <3>1, <3>2, ElsewhereStep
  <2> QED  BY <1>3, <2>3, <2>4 DEF Said
<1> QED  BY <1>2, <1>3, OutboxStep DEF OutboxSaid

\* What is sent stays visible: it has its pre-ack, which no event takes back, and
\* no failure of it is on its way.
LEMMA VisibleKept ==
  ASSUME IInv, [Next]_vars, PreAckRanks, UnsentIsClean, AcceptedWasCalled, FailedIsOver, SentIsVisible
  PROVE  SentIsVisible'
<1> SUFFICES ASSUME faults' = 0, NEW c \in Commands, c \in accepted' \/ InSentHand(c)'
             PROVE  status'[c] \in Visible
  BY DEF SentIsVisible
<1>1. faults = 0
  BY PlaceStep DEF BrokerMoves
<1>2. \/ c \in accepted \/ InSentHand(c)
      \/ hand = At(c, "journaled") /\ hand' = At(c, "confirmed") /\ boundary'[c].preAck
  BY PlaceStep DEF HandMoves, BrokerMoves, InSentHand, At
<1>3. CASE hand = At(c, "journaled") /\ hand' = At(c, "confirmed") /\ boundary'[c].preAck
  <2>1. ~boundary[c].preAck
    BY <1>3 DEF UnsentIsClean, InUnsentHand, At
  <2> QED  BY <1>3, <2>1, PreAckFrom, RankIsVisible
<1>4. CASE c \in accepted \/ InSentHand(c)
  <2>1. status[c] \in Visible
    BY <1>1, <1>4 DEF SentIsVisible
  <2>2. boundary[c].preAck
    BY <1>4 DEF AcceptedWasCalled, InSentHand, IInv, PreAckBeforeCall
  <2>3. boundary'[c].preAck
    BY <2>2, NextType DEF IInv
  <2>4. boundary'[c].state \in Visible
    BY <2>3, PreAckFrom, RankIsVisible
  <2>5. ~Told("command_failed", c)
    BY <1>1, <1>4 DEF Told, FailedIsOver, InSentHand
  <2>6. ASSUME NEW type \in EventTypes, type # "command_failed",
               status'[c] = StatusAfterEvent(status[c], type, boundary'[c])
        PROVE  status'[c] \in Visible
    BY <2>1, <2>4, <2>6 DEF StatusAfterEvent, EffectiveOrderCommandStatus, Visible, RateLimitIgnored,
       TerminalStatuses
  <2> QED  BY <2>1, <2>5, <2>6, RowStep DEF RowMoves, RowKept, IInv, Visible
<1> QED  BY <1>2, <1>3, <1>4

LEMMA InitVisible == Init => VInv
<1> SUFFICES ASSUME Init
             PROVE  VInv
  OBVIOUS
<1>1. /\ Len(outbox) = 0 /\ latePreAck = {} /\ accepted = {} /\ pending = {} /\ hand.cmd \notin Commands
      /\ \A c \in Commands : /\ attempts[c] = 0 /\ boundary[c] = NoBoundary /\ status[c] = "NONE"
                             /\ journal[c] = "NONE"
  BY ConstantsAssumption DEF Init, Idle
<1>2. \A types, c : ~Queued(types, c)
  BY <1>1 DEF Queued
<1>3. \A c \in Commands : ~boundary[c].preAck /\ boundary[c].state = "NONE"
  BY <1>1 DEF NoBoundary
<1>4. AttemptHasRow /\ PreAckRanks /\ AcceptedWasCalled
  BY <1>1, <1>3 DEF AttemptHasRow, PreAckRanks, AcceptedWasCalled
<1>5. ProgressHasPreAck
  BY <1>1, <1>2, <1>3 DEF ProgressHasPreAck, DurablePreAckStates
<1>6. UnsentIsClean
  BY <1>1, <1>2, <1>3 DEF UnsentIsClean
<1>7. FailedIsOver /\ SentIsVisible
  BY <1>1, <1>2 DEF FailedIsOver, SentIsVisible, InSentHand
<1> QED  BY <1>4, <1>5, <1>6, <1>7 DEF VInv

LEMMA NextVisible == IInv /\ VInv /\ [Next]_vars => VInv'
<1> SUFFICES ASSUME IInv, VInv, [Next]_vars
             PROVE  VInv'
  OBVIOUS
<1>1. PreAckRanks'
  BY PreAckFrom DEF PreAckRanks, VInv
<1> QED  BY <1>1, AttemptsKept, ProgressKept, UnsentKept, CalledKept, FailedKept, VisibleKept DEF VInv

LEMMA SpecVisible == Spec => [](IInv /\ VInv)
  BY InitOnce, NextOnce, InitVisible, NextVisible, PTL DEF Spec

-----------------------------------------------------------------------------
\* The structural fault counts of the boundary status stay 0: every claim has
\* its row, broker progress has its pre-ack, and a key has one row.
THEOREM RowsComplete == Spec => []BoundaryRowsComplete
<1>1. IInv /\ VInv => BoundaryRowsComplete
  <2> SUFFICES ASSUME IInv, VInv
               PROVE  BoundaryRowsComplete
    OBVIOUS
  <2>1. \A c \in Commands : ~MissingBoundary(attempts[c], boundary[c])
    BY DEF VInv, AttemptHasRow, HasRow, MissingBoundary
  <2>2. \A c \in Commands : ~DurablePreAckGap(status[c], boundary[c])
    BY DEF VInv, ProgressHasPreAck, DurablePreAckGap
  <2>3. \A c, d \in Commands : c # d /\ KeyOf[c] = KeyOf[d] =>
          boundary[c].state = "NONE" \/ boundary[d].state = "NONE"
    BY DEF IInv, OneRowPerKey, HasRow
  <2> QED  BY <2>1, <2>2, <2>3 DEF BoundaryRowsComplete
<1> QED  BY SpecVisible, <1>1, PTL

\* As long as the journal can be written, an order the broker has accepted is
\* pre-acked, unconfirmed, accepted or confirmed in Core: no late failure, rate
\* limit, timeout, replay or restart makes it look finished, unsent or queued.
THEOREM AcceptedStaysVisible == Spec => []AcceptedOrderStaysVisible
<1>1. IInv /\ VInv => AcceptedOrderStaysVisible
  BY DEF VInv, SentIsVisible, IInv, TypeOK, AcceptedOrderStaysVisible, Visible
<1> QED  BY SpecVisible, <1>1, PTL
=============================================================================
