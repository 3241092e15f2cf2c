------------------------------- MODULE LiveSim -------------------------------
(***************************************************************************)
(* The LIVE_SIM books (services/live_sim/live_sim_service.py): BUY orders,   *)
(* the positions their fills open, the cancel of what stays unfilled and the *)
(* SELL orders that close a position, for one account and one stock code.    *)
(*                                                                         *)
(* The runners (operating cycle, API run-once, CLI tools) are not kept apart *)
(* by a lock.  What one reads and what it writes later are separate actions, *)
(* and a runner may end between any two of its transactions.  The gateway's  *)
(* events are applied one by one, in order, each in one transaction (module  *)
(* LifecycleInbox); a command reaches the broker at most once (GatewayOrders).*)
(* The broker accepts or fails an order, fills it in parts and cancels it.   *)
(* Prices, fees, sessions and the daily limits are left out.                 *)
(***************************************************************************)
EXTENDS Integers, Sequences, FiniteSetsExt, Functions

CONSTANTS
  Buys,        \* BUY intents and their orders
  Sells,       \* exit signals, their intents and their orders
  Runners,     \* run_live_sim_cancel_unfilled_once, run_live_sim_exit_once
  None,
  Q,           \* quantity of a BUY intent
  MaxActive,   \* live_sim_max_active_orders
  ScaleIn,     \* live_sim_position_allow_scale_in
  ChejanFeed,  \* the Kiwoom gateway, which sends every chejan too; else the mock gateway
  MaxFaults    \* bound: runners that end early and executions that are reported twice

ASSUME LiveSimConstants ==
  /\ IsFiniteSet(Buys) /\ IsFiniteSet(Sells)
  /\ Buys \cap Sells = {}
  /\ None \notin Buys \cup Sells
  /\ Q \in Nat \ {0}
  /\ MaxActive \in Nat
  /\ ScaleIn \in BOOLEAN
  /\ ChejanFeed \in BOOLEAN
  /\ MaxFaults \in Nat

Orders == Buys \cup Sells

VARIABLES
  intent,    \* live_sim_intents.status
  order,     \* live_sim_orders
  cancel,    \* live_sim_cancel_intents.status; the key allows one for each order
  exit,      \* live_sim_exit_signals and live_sim_exit_intents
  pos,       \* live_sim_positions in the order of opened_at
  booked,    \* execution keys in live_sim_executions
  net,       \* the sum of live_sim_executions, BUY minus SELL
  unbooked,  \* SELL fills Core could only record as errors (live_sim_errors)
  blocked,   \* the latest reconcile snapshot blocks new BUYs
  command,   \* gateway_commands.status of the orders' commands
  ccommand,  \* gateway_commands.status of the cancel commands
  open,      \* the quantity that is open at the broker
  fills,     \* the broker's executions of each order so far
  held,      \* the shares the account holds at the broker
  feed,      \* events on their way to the handlers
  run,       \* where each runner is and what it has read
  faults     \* bound counter

books == <<intent, order, cancel, exit, pos, booked, net, unbooked, blocked>>
broker == <<command, ccommand, open, fills, held>>
vars == <<books, broker, feed, run, faults>>

-----------------------------------------------------------------------------
(* State *)

NoOrder == [status |-> "none", qty |-> 0, filled |-> 0, remaining |-> 0, no |-> FALSE]

NewOrder(status, qty) ==
  [status |-> status, qty |-> qty, filled |-> 0, remaining |-> qty, no |-> FALSE]

ActiveStatuses == {"COMMAND_QUEUED", "COMMAND_DISPATCHED", "BROKER_ACKED", "PARTIALLY_FILLED",
                   "CANCEL_REQUESTED", "CANCEL_COMMAND_QUEUED", "EXIT_COMMAND_QUEUED"}

TerminalStatuses == {"FILLED", "CANCELLED", "FAILED", "ORDER_EXPIRED", "CANCEL_REJECTED",
                     "EXIT_FILLED"}

ActiveOrders == {o \in Orders : order[o].status \in ActiveStatuses}

NoExit == [pos |-> 0, qty |-> 0, signal |-> "none", intent |-> "none"]

\* _active_exit_intent_for_position and _active_exit_for_position.
ActiveExitIntent(p) ==
  \E x \in Sells : exit[x].pos = p /\ exit[x].intent \in {"CREATED", "COMMAND_QUEUED"}

ActiveExit(p) ==
  \/ ActiveExitIntent(p)
  \/ \E x \in Sells : /\ exit[x].pos = p
                      /\ exit[x].signal \in {"SIGNALLED", "EXIT_INTENT_CREATED", "COMMAND_QUEUED"}

OpenPositions == {p \in DOMAIN pos : pos[p].status \in {"OPEN", "CLOSING", "RECONCILE_MISMATCH"}}

PositionQuantity == SumFunction([p \in DOMAIN pos |-> pos[p].qty])

Idle == [at |-> "idle", on |-> None, pos |-> 0, qty |-> 0]

Init ==
  /\ intent = [b \in Buys |-> "none"]
  /\ order = [o \in Orders |-> NoOrder]
  /\ cancel = [b \in Buys |-> "none"]
  /\ exit = [x \in Sells |-> NoExit]
  /\ pos = <<>>
  /\ booked = {}
  /\ net = 0
  /\ unbooked = {}
  /\ blocked = FALSE
  /\ command = [o \in Orders |-> "none"]
  /\ ccommand = [b \in Buys |-> "none"]
  /\ open = [o \in Orders |-> 0]
  /\ fills = [o \in Orders |-> 0]
  /\ held = 0
  /\ feed = <<>>
  /\ run = [r \in Runners |-> Idle]
  /\ faults = 0

-----------------------------------------------------------------------------
(* BUY *)

\* evaluate_live_sim_eligibility, as far as the books decide it.  The duplicate
\* check is left out: it looks only at what was created within a cooldown.
Eligible ==
  /\ ~blocked
  /\ Cardinality(ActiveOrders) < MaxActive
  /\ ScaleIn \/ /\ OpenPositions = {}
                /\ \A b \in Buys : order[b].status \notin {"PARTIALLY_FILLED", "FILLED"}
  /\ \A p \in DOMAIN pos : ~ActiveExitIntent(p)
  /\ \A b \in Buys : cancel[b] \notin {"CREATED", "COMMAND_QUEUED"}

\* create_live_sim_intent.
CreateIntent(b) ==
  /\ intent[b] = "none"
  /\ Eligible
  /\ intent' = [intent EXCEPT ![b] = "CREATED"]
  /\ UNCHANGED <<order, cancel, exit, pos, booked, net, unbooked, blocked, broker, feed, run,
                 faults>>

\* Fault: the limit is the one create_live_sim_intent checked.
QueueBuyFault(b) ==
  /\ intent[b] = "CREATED"
  /\ ~blocked
  /\ intent' = [intent EXCEPT ![b] = "COMMAND_QUEUED"]
  /\ order' = [order EXCEPT ![b] = NewOrder("COMMAND_QUEUED", Q)]
  /\ command' = [command EXCEPT ![b] = "QUEUED"]
  /\ UNCHANGED <<cancel, exit, pos, booked, net, unbooked, blocked, ccommand, open, fills, held,
                 feed, run, faults>>

\* queue_live_sim_order_command: intent, limits, command and order in one transaction
\* that holds the write lock from before its reads.  A refusal leaves the intent.
QueueBuy(b) ==
  /\ intent[b] = "CREATED"
  /\ ~blocked
  /\ Cardinality(ActiveOrders) < MaxActive
  /\ intent' = [intent EXCEPT ![b] = "COMMAND_QUEUED"]
  /\ order' = [order EXCEPT ![b] = NewOrder("COMMAND_QUEUED", Q)]
  /\ command' = [command EXCEPT ![b] = "QUEUED"]
  /\ UNCHANGED <<cancel, exit, pos, booked, net, unbooked, blocked, ccommand, open, fills, held,
                 feed, run, faults>>

\* _reject_bound_order_plan_enqueue: the order plan no longer supports the intent.
RejectBinding(b) ==
  /\ intent[b] = "CREATED"
  /\ intent' = [intent EXCEPT ![b] = "REJECTED"]
  /\ UNCHANGED <<order, cancel, exit, pos, booked, net, unbooked, blocked, broker, feed, run,
                 faults>>

\* Fault: the sweep goes by the age of the order, not by what became of its command.
SweepFault(b) ==
  /\ order[b].status = "COMMAND_QUEUED"
  /\ order' = [order EXCEPT ![b].status = "ORDER_EXPIRED", ![b].remaining = 0]
  /\ intent' = [intent EXCEPT ![b] = IF @ = "COMMAND_QUEUED" THEN "EXPIRED" ELSE @]
  /\ UNCHANGED <<cancel, exit, pos, booked, net, unbooked, blocked, broker, feed, run,
                 faults>>

\* sweep_expired_live_sim_order_commands: the command expired before any dispatch.
Sweep(b) ==
  /\ order[b].status = "COMMAND_QUEUED"
  /\ command[b] = "EXPIRED"
  /\ order' = [order EXCEPT ![b].status = "ORDER_EXPIRED", ![b].remaining = 0]
  /\ intent' = [intent EXCEPT ![b] = IF @ = "COMMAND_QUEUED" THEN "EXPIRED" ELSE @]
  /\ UNCHANGED <<cancel, exit, pos, booked, net, unbooked, blocked, broker, feed, run,
                 faults>>

\* What reconcile_live_sim_orders_and_positions finds in the books alone.
Mismatch ==
  \/ \E o \in ActiveOrders : \/ command[o] = "EXPIRED"
                             \/ order[o].filled + order[o].remaining > order[o].qty
  \/ \E p \in OpenPositions : pos[p].qty # net

\* Old orders and the broker's snapshot may be a mismatch too.
Reconcile ==
  /\ blocked' \in {Mismatch, TRUE}
  /\ UNCHANGED <<intent, order, cancel, exit, pos, booked, net, unbooked, broker, feed, run,
                 faults>>

-----------------------------------------------------------------------------
(* Cancel of an unfilled BUY *)

At(r, place) == run[r].at = place

Goto(r, place, on, p, qty) ==
  run' = [run EXCEPT ![r] = [at |-> place, on |-> on, pos |-> p, qty |-> qty]]

Done(r) == run' = [run EXCEPT ![r] = Idle]

ActiveCancel(b) == cancel[b] \in {"CREATED", "COMMAND_QUEUED"}

\* evaluate_live_sim_cancel_candidates and the reads of create_live_sim_cancel_intent.
CancelRead(r, b) ==
  /\ At(r, "idle")
  /\ b \in ActiveOrders
  /\ order[b].remaining > 0
  /\ order[b].no
  /\ ~ActiveCancel(b)
  /\ Goto(r, "cancel", b, 0, 0)
  /\ UNCHANGED <<books, broker, feed, faults>>

\* The insert fails when the order had a cancel intent before; else the order's status
\* is overwritten, whatever it is by now.
CancelIntent(r) ==
  /\ At(r, "cancel")
  /\ LET b == run[r].on
     IN IF cancel[b] # "none"
        THEN Done(r) /\ UNCHANGED <<cancel, order>>
        ELSE /\ cancel' = [cancel EXCEPT ![b] = "CREATED"]
             /\ order' = [order EXCEPT ![b].status = "CANCEL_REQUESTED"]
             /\ Goto(r, "cancel_queue", b, 0, 0)
  /\ UNCHANGED <<intent, exit, pos, booked, net, unbooked, blocked, broker, feed, faults>>

\* queue_live_sim_cancel_command up to enqueue_command, which commits.
CancelQueue(r) ==
  /\ At(r, "cancel_queue")
  /\ LET b == run[r].on
     IN IF order[b].remaining > 0 /\ order[b].no
        THEN /\ ccommand' = [ccommand EXCEPT ![b] = "QUEUED"]
             /\ Goto(r, "cancel_record", b, 0, 0)
             /\ UNCHANGED cancel
        ELSE /\ cancel' = [cancel EXCEPT ![b] = "REJECTED"]
             /\ Done(r)
             /\ UNCHANGED ccommand
  /\ UNCHANGED <<intent, order, exit, pos, booked, net, unbooked, blocked, command, open, fills,
                 held, feed, faults>>

\* The rest of it, in a second transaction.
CancelRecord(r) ==
  /\ At(r, "cancel_record")
  /\ cancel' = [cancel EXCEPT ![run[r].on] = "COMMAND_QUEUED"]
  /\ order' = [order EXCEPT ![run[r].on].status = "CANCEL_COMMAND_QUEUED"]
  /\ Done(r)
  /\ UNCHANGED <<intent, exit, pos, booked, net, unbooked, blocked, broker, feed, faults>>

-----------------------------------------------------------------------------
(* Exit of a position *)

\* evaluate_live_sim_exit_signals and the read of _insert_exit_signal_from_candidate;
\* the exit policy may trigger at any time.
ExitRead(r, p) ==
  /\ At(r, "idle")
  /\ pos[p].status = "OPEN"
  /\ pos[p].qty > 0
  /\ ~ActiveExit(p)
  /\ Goto(r, "signal", None, p, 0)
  /\ UNCHANGED <<books, broker, feed, faults>>

\* The signal is inserted and committed; create_live_sim_exit_intent reads.
ExitSignal(r) ==
  /\ At(r, "signal")
  /\ \E x \in Sells :
       LET p == run[r].pos
       IN /\ exit[x] = NoExit
          /\ exit' = [exit EXCEPT ![x].pos = p, ![x].signal = "SIGNALLED"]
          /\ IF ~ActiveExitIntent(p) /\ pos[p].status \in {"OPEN", "RECONCILE_MISMATCH"} /\ pos[p].qty > 0
             THEN Goto(r, "intent", x, p, pos[p].qty)
             ELSE Done(r)
  /\ UNCHANGED <<intent, order, cancel, pos, booked, net, unbooked, blocked, broker, feed,
                 faults>>

\* The intent for all that was available is inserted.
ExitIntent(r) ==
  /\ At(r, "intent")
  /\ exit' = [exit EXCEPT ![run[r].on].signal = "EXIT_INTENT_CREATED", ![run[r].on].intent = "CREATED",
                         ![run[r].on].qty = run[r].qty]
  /\ Goto(r, "exit_queue", run[r].on, run[r].pos, run[r].qty)
  /\ UNCHANGED <<intent, order, cancel, pos, booked, net, unbooked, blocked, broker, feed,
                 faults>>

\* _exit_safety_reasons.
ExitSafe(p, qty) ==
  /\ pos[p].status \in {"OPEN", "CLOSING", "RECONCILE_MISMATCH"}
  /\ qty <= pos[p].qty

\* queue_live_sim_exit_order_command up to enqueue_command, which commits.
ExitQueue(r) ==
  /\ At(r, "exit_queue")
  /\ LET x == run[r].on
     IN IF ExitSafe(run[r].pos, run[r].qty)
        THEN /\ command' = [command EXCEPT ![x] = "QUEUED"]
             /\ Goto(r, "exit_record", x, run[r].pos, run[r].qty)
             /\ UNCHANGED exit
        ELSE /\ exit' = [exit EXCEPT ![x].intent = "REJECTED"]
             /\ Done(r)
             /\ UNCHANGED command
  /\ UNCHANGED <<intent, order, cancel, pos, booked, net, unbooked, blocked, ccommand, open, fills,
                 held, feed, faults>>

\* The rest of it, in a second transaction.
ExitRecord(r) ==
  /\ At(r, "exit_record")
  /\ order' = [order EXCEPT ![run[r].on] = NewOrder("EXIT_COMMAND_QUEUED", run[r].qty)]
  /\ exit' = [exit EXCEPT ![run[r].on].signal = "COMMAND_QUEUED", ![run[r].on].intent = "COMMAND_QUEUED"]
  /\ pos' = [pos EXCEPT ![run[r].pos].status = "CLOSING"]
  /\ Done(r)
  /\ UNCHANGED <<intent, cancel, booked, net, unbooked, blocked, broker, feed, faults>>

\* An exception or a crash; what was committed stays.
RunnerDies(r) ==
  /\ ~At(r, "idle")
  /\ faults < MaxFaults
  /\ faults' = faults + 1
  /\ Done(r)
  /\ UNCHANGED <<books, broker, feed>>

-----------------------------------------------------------------------------
(* The gateway and the broker *)

CommandQuantity(o) == IF o \in Buys THEN Q ELSE exit[o].qty

\* Events in the terms of the handlers: id tells the executions of an order apart.
Event(type, o) == [type |-> type, of |-> o, id |-> 0, q |-> 0, rem |-> 0]
Execution(o, id, q, rem) == [type |-> "exec", of |-> o, id |-> id, q |-> q, rem |-> rem]

\* _parse_order_chejan: its quantity is the quantity of the order, not of the fill, and
\* an acceptance has a price too; _handle_live_sim_chejan_event makes it an execution.
Chejan(o, id, rem) == IF ChejanFeed THEN <<Execution(o, id, CommandQuantity(o), rem)>> ELSE <<>>

\* The command is polled, sent and answered.
Dispatch(o) ==
  /\ command[o] = "QUEUED"
  /\ command' = [command EXCEPT ![o] = "TAKEN"]
  /\ \/ /\ open' = [open EXCEPT ![o] = CommandQuantity(o)]
        /\ feed' = feed \o <<Event("started", o), Event("ack", o)>>
                        \o Chejan(o, 0, CommandQuantity(o))
     \/ /\ feed' = feed \o <<Event("started", o), Event("failed", o)>>
        /\ UNCHANGED open
  /\ UNCHANGED <<books, ccommand, fills, held, run, faults>>

\* The TTL of a BUY command passes before a poll takes it; an exit command has none.
Expire(b) ==
  /\ command[b] = "QUEUED"
  /\ command' = [command EXCEPT ![b] = "EXPIRED"]
  /\ UNCHANGED <<books, ccommand, open, fills, held, feed, run, faults>>

Fill(o) ==
  \E q \in 1..open[o] :
    /\ open' = [open EXCEPT ![o] = @ - q]
    /\ fills' = [fills EXCEPT ![o] = @ + 1]
    /\ held' = IF o \in Buys THEN held + q ELSE held - q
    /\ feed' = feed \o Chejan(o, fills[o] + 1, open[o] - q)
                    \o <<Execution(o, fills[o] + 1, q, open[o] - q)>>
    /\ UNCHANGED <<books, command, ccommand, run, faults>>

\* The cancel command is answered; the broker cancels the rest later.
DispatchCancel(b) ==
  /\ ccommand[b] = "QUEUED"
  /\ \E answer \in {"cancel_ack", "cancel_failed"} :
       /\ ccommand' = [ccommand EXCEPT ![b] = answer]
       /\ feed' = Append(feed, Event(answer, b))
  /\ UNCHANGED <<books, command, open, fills, held, run, faults>>

BrokerCancel(b) ==
  /\ ccommand[b] = "cancel_ack"
  /\ open[b] > 0
  /\ open' = [open EXCEPT ![b] = 0]
  /\ UNCHANGED <<books, command, ccommand, fills, held, feed, run, faults>>

\* The same execution is reported twice.
Repeat(i) ==
  /\ feed[i].type = "exec"
  /\ faults < MaxFaults
  /\ faults' = faults + 1
  /\ feed' = Append(feed, feed[i])
  /\ UNCHANGED <<books, broker, run>>

-----------------------------------------------------------------------------
(* handle_live_sim_gateway_event: one event, one transaction *)

Receive(type) == feed # <<>> /\ Head(feed).type = type /\ feed' = Tail(feed)

\* The order row of an exit command is inserted after the command.
Known(o) == order[o].status # "none"

\* _handle_live_sim_command_event: the status is set whatever it was.
Started ==
  /\ Receive("started")
  /\ LET o == Head(feed).of
     IN order' = IF Known(o)
                 THEN [order EXCEPT ![o].status = IF o \in Buys THEN "COMMAND_DISPATCHED"
                                                  ELSE "EXIT_COMMAND_QUEUED"]
                 ELSE order
  /\ UNCHANGED <<intent, cancel, exit, pos, booked, net, unbooked, blocked, broker, run, faults>>

\* The mock gateway returns a broker order number, SendOrder of Kiwoom does not.
Acked ==
  /\ Receive("ack")
  /\ LET o == Head(feed).of
     IN order' = IF Known(o)
                 THEN [order EXCEPT ![o].status = "BROKER_ACKED", ![o].no = ~ChejanFeed]
                 ELSE order
  /\ UNCHANGED <<intent, cancel, exit, pos, booked, net, unbooked, blocked, broker, run, faults>>

\* A failed exit gives up its intent; its signal and its position stay.
Failed ==
  /\ Receive("failed")
  /\ LET o == Head(feed).of
     IN IF ~Known(o)
        THEN UNCHANGED <<order, intent, exit>>
        ELSE /\ order' = [order EXCEPT ![o].status = "FAILED"]
             /\ intent' = [b \in Buys |-> IF b = o /\ intent[b] \in {"CREATED", "COMMAND_QUEUED"}
                                          THEN "REJECTED" ELSE intent[b]]
             /\ exit' = [x \in Sells |-> IF x = o THEN [exit[x] EXCEPT !.intent = "REJECTED"]
                                         ELSE exit[x]]
  /\ UNCHANGED <<cancel, pos, booked, net, unbooked, blocked, broker, run, faults>>

\* _handle_cancel_command_event, which finds the cancel intent by its command.
CancelAnswered ==
  /\ Receive("cancel_ack") \/ Receive("cancel_failed")
  /\ LET b == Head(feed).of
         accepted == Head(feed).type = "cancel_ack"
     IN IF cancel[b] # "COMMAND_QUEUED"
        THEN UNCHANGED <<cancel, order, intent>>
        ELSE /\ cancel' = [cancel EXCEPT ![b] = IF accepted THEN "ACKED" ELSE "REJECTED"]
             /\ order' = [order EXCEPT ![b].status = IF accepted THEN "CANCELLED" ELSE "CANCEL_REJECTED"]
             /\ intent' = [intent EXCEPT ![b] = IF accepted /\ order[b].filled = 0 THEN "CANCELLED" ELSE @]
  /\ UNCHANGED <<exit, pos, booked, net, unbooked, blocked, broker, run, faults>>

\* _position_by_account_code: the earliest, 0 when there is none.
PositionIn(statuses) ==
  LET found == {p \in DOMAIN pos : pos[p].status \in statuses}
  IN IF found = {} THEN 0 ELSE Min(found)

\* Fault: a fill is taken for all that is filled of its order by now.
BuyFillFault(e) ==
  LET p == PositionIn({"OPEN", "RECONCILE_MISMATCH"})
      filled == order[e.of].filled + e.q
  IN /\ pos' = IF p = 0 THEN Append(pos, [status |-> "OPEN", qty |-> filled])
               ELSE [pos EXCEPT ![p] = [status |-> "OPEN", qty |-> @.qty + filled]]
     /\ net' = net + e.q
     /\ UNCHANGED <<exit, unbooked>>

\* _apply_buy_fill.
BuyFill(e) ==
  LET p == PositionIn({"OPEN", "RECONCILE_MISMATCH"})
  IN /\ pos' = IF p = 0 THEN Append(pos, [status |-> "OPEN", qty |-> e.q])
               ELSE [pos EXCEPT ![p] = [status |-> "OPEN", qty |-> @.qty + e.q]]
     /\ net' = net + e.q
     /\ UNCHANGED <<exit, unbooked>>

\* The position a SELL fill is taken from, and whether it has the shares.  No gateway puts
\* a position_id into an execution's metadata, so the position is found by account and code.
SellFrom == PositionIn({"OPEN", "RECONCILE_MISMATCH", "CLOSING"})
Fits(q) == SellFrom # 0 /\ q <= pos[SellFrom].qty
Keeps(q) == Fits(q) /\ q < pos[SellFrom].qty

\* Fault: the position is closed with the order, not with its last share.
SellFillFault(e) ==
  /\ pos' = IF Fits(e.q)
            THEN [pos EXCEPT ![SellFrom] = [status |-> "CLOSED", qty |-> @.qty - e.q]]
            ELSE pos
  /\ net' = net - e.q
  /\ unbooked' = IF Fits(e.q) THEN unbooked \ {e} ELSE unbooked \cup {e}
  /\ exit' = [exit EXCEPT ![e.of].intent = "CLOSED", ![e.of].signal = "CLOSED"]

\* _apply_sell_fill and _mark_exit_after_sell_fill.  A fill that finds no position or too
\* few shares is an error row, and ends the exit like one that closes the position.
SellFill(e) ==
  LET p == SellFrom
      status == IF Keeps(e.q) THEN "COMMAND_QUEUED" ELSE "CLOSED"
  IN /\ pos' = IF Fits(e.q)
               THEN [pos EXCEPT ![p] = [status |-> IF Keeps(e.q) THEN "CLOSING" ELSE "CLOSED",
                                        qty |-> @.qty - e.q]]
               ELSE [i \in DOMAIN pos |-> IF i = p THEN [pos[i] EXCEPT !.status = "RECONCILE_MISMATCH"]
                                          ELSE pos[i]]
     /\ net' = net - e.q
     /\ unbooked' = IF Fits(e.q) THEN unbooked \ {e} ELSE unbooked \cup {e}
     /\ exit' = [exit EXCEPT ![e.of].intent = status, ![e.of].signal = status]

FillStatus(e) ==
  IF e.of \in Sells /\ ~Keeps(e.q) THEN "EXIT_FILLED"
  ELSE IF e.rem = 0 THEN "FILLED" ELSE "PARTIALLY_FILLED"

\* Fault: every execution event is a new execution.
AlreadyAppliedFault(e) == FALSE

\* _execution_key and _execution_already_applied.
AlreadyApplied(e) == <<e.of, e.id>> \in booked

\* _handle_live_sim_execution_event: unknown order, a duplicate, or a fill.
Executed ==
  /\ Receive("exec")
  /\ LET e == Head(feed)
     IN \/ /\ ~Known(e.of)
           /\ unbooked' = unbooked \cup {e}
           /\ UNCHANGED <<order, exit, pos, booked, net>>
        \/ /\ Known(e.of)
           /\ AlreadyApplied(e)
           /\ UNCHANGED <<order, exit, pos, booked, net, unbooked>>
        \/ /\ Known(e.of)
           /\ ~AlreadyApplied(e)
           /\ booked' = booked \cup {<<e.of, e.id>>}
           /\ order' = [order EXCEPT ![e.of].filled = @ + e.q,
                                     ![e.of].remaining = e.rem,
                                     ![e.of].status = FillStatus(e)]
           /\ IF e.of \in Buys THEN BuyFill(e) ELSE SellFill(e)
  /\ UNCHANGED <<intent, cancel, blocked, broker, run, faults>>

-----------------------------------------------------------------------------
(* Specification *)

BuyStep == \E b \in Buys : CreateIntent(b) \/ QueueBuy(b) \/ RejectBinding(b) \/ Sweep(b)

CancelStep(r) ==
  \/ \E b \in Buys : CancelRead(r, b)
  \/ CancelIntent(r) \/ CancelQueue(r) \/ CancelRecord(r)

ExitStep(r) ==
  \/ \E p \in DOMAIN pos : ExitRead(r, p)
  \/ ExitSignal(r) \/ ExitIntent(r) \/ ExitQueue(r) \/ ExitRecord(r)

BrokerStep ==
  \/ \E o \in Orders : Dispatch(o) \/ Fill(o)
  \/ \E b \in Buys : Expire(b) \/ DispatchCancel(b) \/ BrokerCancel(b)
  \/ \E i \in DOMAIN feed : Repeat(i)

HandlerStep == Started \/ Acked \/ Failed \/ CancelAnswered \/ Executed

Next ==
  \/ BuyStep
  \/ Reconcile
  \/ \E r \in Runners : CancelStep(r) \/ ExitStep(r) \/ RunnerDies(r)
  \/ BrokerStep
  \/ HandlerStep

Spec == Init /\ [][Next]_vars

-----------------------------------------------------------------------------
(* Properties *)

IntentStatuses == {"none", "CREATED", "COMMAND_QUEUED", "REJECTED", "EXPIRED", "CANCELLED"}
Places == {"idle", "cancel", "cancel_queue", "cancel_record", "signal", "intent", "exit_queue",
           "exit_record"}

\* Every row has one of the statuses the code gives it, no quantity is negative, an order
\* has no more left than it was for, and a position with the status CLOSED is empty
\* (_handle_live_sim_execution_event, _apply_sell_fill).
TypeOK ==
  /\ intent \in [Buys -> IntentStatuses]
  /\ \A o \in Orders : /\ order[o].status \in ActiveStatuses \cup TerminalStatuses \cup {"none"}
                       /\ order[o].filled \in Nat /\ order[o].remaining \in 0..order[o].qty
  /\ cancel \in [Buys -> {"none", "CREATED", "COMMAND_QUEUED", "ACKED", "REJECTED"}]
  /\ \A x \in Sells : /\ exit[x].pos \in 0..Len(pos)
                      /\ exit[x].signal \in {"none", "SIGNALLED", "EXIT_INTENT_CREATED",
                                             "COMMAND_QUEUED", "CLOSED"}
                      /\ exit[x].intent \in {"none", "CREATED", "COMMAND_QUEUED", "REJECTED", "CLOSED"}
  /\ \A p \in DOMAIN pos : /\ pos[p].status \in {"OPEN", "CLOSING", "CLOSED", "RECONCILE_MISMATCH"}
                           /\ pos[p].qty \in Nat
                           /\ pos[p].status = "CLOSED" => pos[p].qty = 0
  /\ booked \subseteq Orders \X Nat
  /\ blocked \in BOOLEAN
  /\ \A r \in Runners : run[r].at \in Places

Unbooked == SumFunction([e \in unbooked |-> e.q])

\* Once every event is applied, the positions hold the account's shares: each fill is in
\* them exactly once, except the SELL fills Core could only record as errors, which are
\* still in (_handle_live_sim_execution_event, _apply_buy_fill, _apply_sell_fill).
BooksMatchBroker ==
  (\A i \in DOMAIN feed : feed[i].type # "exec") => PositionQuantity = held + Unbooked

\* What the exit orders may still sell.
ToSell == SumFunction([x \in Sells |-> IF command[x] = "QUEUED" THEN exit[x].qty ELSE open[x]])

\* No SELL fill has found too few shares in the position it is taken from (_apply_sell_fill).
\* Its exit counts as closed with the shares still in, and they can be sold a second time.
NoShortFill == \A e \in unbooked : ~AlreadyApplied(e)

\* No position has got two exit commands.  The check for an exit that is under way and the
\* insert of the new one are not one transaction (_insert_exit_signal_from_candidate,
\* create_live_sim_exit_intent): two runners can both pass it.
OneExitEach ==
  \A x, y \in Sells :
    x # y /\ command[x] # "none" /\ command[y] # "none" => exit[x].pos # exit[y].pos

\* The exit path sells more than the account holds in two ways only, a SELL fill that finds
\* too few shares and two runners that exit one position at the same time.  Whatever else
\* runners, fills, cancels and lost or repeated reports do, what is queued or open to be
\* sold is held (queue_live_sim_exit_order_command, _exit_safety_reasons).
NeverSellsMoreThanHeld == NoShortFill /\ OneExitEach => ToSell <= held

\* What the documentation says of the exit path: a SELL only closes.  Two runners that have
\* both read a position before either has written its exit sell it twice.
SellsOnlyClose == ToSell <= held

\* A BUY order that may still be filled counts as active, so that no other BUY takes its
\* place, until its cancel is answered (ACTIVE_LIVE_SIM_ORDER_STATUSES, _active_order_count).
LiveOrdersCounted ==
  \A b \in Buys :
    (command[b] = "QUEUED" \/ open[b] > 0) /\ cancel[b] \notin {"ACKED", "REJECTED"}
      => order[b].status \in ActiveStatuses

\* No more BUY orders than live_sim_max_active_orders can be filled at the same time, whatever
\* the runners and the events do, cancels in doubt aside (queue_live_sim_order_command).
ActiveLimitHolds ==
  Cardinality({b \in Buys : /\ command[b] = "QUEUED" \/ open[b] > 0
                            /\ cancel[b] \notin {"ACKED", "REJECTED"}}) <= MaxActive

\* What the documentation says of the order status: it is PARTIALLY_FILLED after a partial
\* fill.  Under the Kiwoom feed an acceptance makes it so.
PartialFillIsAFill ==
  \A o \in Orders : order[o].status = "PARTIALLY_FILLED" => fills[o] > 0

=============================================================================
