----------------------- MODULE BoundaryResolutionProofs -----------------------
(***************************************************************************)
(* What the resolution and fence ledgers guarantee for any number of orders, *)
(* operators, requests and days.                                            *)
(*                                                                         *)
(* The argument: an order at the broker has its pre-ack in Core, which is    *)
(* evidence that no resolution survives (BrokerTold); a row is appended to a *)
(* valid ledger only where the next row of a chain may stand; and what Core  *)
(* knows of an order only grows, so that a fingerprint once left is never    *)
(* met again (Past).                                                        *)
(***************************************************************************)
EXTENDS BoundaryResolution, SequenceTheorems, TLAPS

-----------------------------------------------------------------------------
(* The inductive invariant *)

\* What the gateway sends on its own; the pre-ack is recorded synchronously.
Sent == {"command_started", "command_ack", "command_failed", "chejan", "order_broker_unconfirmed"}

Known == {"UNCONFIRMED", "BROKER_ACCEPTED", "CHEJAN_CONFIRMED"}

ResolutionRows == [action : {"RESOLVE", "REVOKE"}, id : Nat, supersedes : Nat, fp : Fingerprints]

FenceRows == [action : {"RELEASE", "REINSTATE"}, id : Nat, supersedes : Nat, res : Nat,
              fp : Fingerprints, day : Nat]

Requests == [action : {"RESOLVE", "REVOKE", "RELEASE", "REINSTATE"}, id : Nat, order : Orders,
             version : Nat, day : Nat, prev : Nat, res : Nat, fp : Fingerprints]

LedgerTypes ==
  /\ ledger \in [Orders -> Seq(ResolutionRows)]
  /\ fence \in [Orders -> Seq(FenceRows)]
  /\ request \in [Operators -> {[action |-> "none"]} \cup Requests]

\* An order that is, or is about to be, at the broker left a pre-ack in Core.
BrokerTold ==
  \A c \in Orders : c \in reached \/ gw[c] = "preacked" => boundary[c].preAck

\* Nothing returns an order to a state before its doubt.
StaysKnown ==
  \A c \in Orders : boundary[c].state \in Known /\ pending[c] \subseteq Sent

\* Without evidence the order can only have failed in the gateway since.
NoEvidence ==
  \A c \in Orders : ~Reach(c) => boundary[c] = InDoubt /\ status[c] \in {"UNCONFIRMED", "FAILED"}

\* x was the fingerprint of an order in doubt, and still is or never will be again.
Past(c, x) ==
  /\ x.row = InDoubt /\ x.evidence = {}
  /\ x = Fingerprint(c) \/ Reach(c) \/ (x.status = "UNCONFIRMED" /\ status[c] = "FAILED")

FenceIsPast ==
  \A c \in Orders : \A i \in DOMAIN fence[c] :
    /\ fence[c][i].day <= day
    /\ fence[c][i].res \in 1..Len(ledger[c])
    /\ Past(c, fence[c][i].fp)

IInv == TypeOK /\ LedgerTypes /\ LedgersValid /\ BrokerTold /\ StaysKnown /\ NoEvidence /\ FenceIsPast

-----------------------------------------------------------------------------
(* Events *)

\* An event keeps an order in the states it can have after a doubt, and never takes
\* evidence away; a failure leaves the row as it is (record_order_broker_event).
LEMMA EventOnRow ==
  ASSUME NEW b \in Boundaries, b.state \in Known, NEW type \in Sent \cup {"order_pre_ack"}
  PROVE  LET n == BoundaryAfterEvent(b, type) IN
         /\ n \in Boundaries
         /\ n.state \in Known
         /\ b.preAck => n.preAck
         /\ b.started => n.started
         /\ type = "order_pre_ack" => n.preAck
         /\ type = "command_failed" => n = b
<1> DEFINE p == StateForEvent(type)
           n == UpsertBoundary(b, p, PreAckEvent(type))
<1>1. b.started \in BOOLEAN /\ b.preAck \in BOOLEAN
  BY DEF Boundaries
<1>2. CASE type = "command_failed"
  BY <1>2 DEF BoundaryAfterEvent, StateForEvent
<1>3. CASE type # "command_failed"
  <2>1. p \in BoundaryStates
    BY <1>3 DEF StateForEvent, BoundaryStates, Sent
  <2>2. BoundaryAfterEvent(b, type) = n
    BY <2>1 DEF BoundaryAfterEvent, BoundaryStates
  <2>3. ResolveState(b.state, p) \in Known
    BY <1>3 DEF ResolveState, Rank, StateForEvent, Known, Sent
  <2>4. (b.started \/ (Rank(p) >= 20 /\ p # "UNCONFIRMED")) \in BOOLEAN
    BY <1>1
  <2>5. (b.preAck \/ PreAckEvent(type)) \in BOOLEAN
    BY <1>1
  <2>6. /\ n.state = ResolveState(b.state, p)
        /\ n.started = (b.started \/ (Rank(p) >= 20 /\ p # "UNCONFIRMED"))
        /\ n.preAck = (b.preAck \/ PreAckEvent(type))
    BY DEF UpsertBoundary
  <2>7. n \in Boundaries
    BY <2>3, <2>4, <2>5 DEF UpsertBoundary, Boundaries, Known, BoundaryStates
  <2>8. type = "order_pre_ack" => PreAckEvent(type)
    BY DEF PreAckEvent
  <2> HIDE DEF n, p
  <2> QED  BY <1>1, <1>3, <2>2, <2>3, <2>6, <2>7, <2>8
<1> QED  BY <1>2, <1>3

\* A failure makes an order in doubt FAILED and leaves it there (record_command_event).
LEMMA EventOnStatus ==
  ASSUME NEW s \in Statuses, NEW b \in Boundaries, b.state \in Known,
         NEW type \in Sent \cup {"order_pre_ack"}
  PROVE  /\ StatusAfterEvent(s, type, b) \in Statuses
         /\ type = "command_failed" /\ s \in {"UNCONFIRMED", "FAILED"}
              => StatusAfterEvent(s, type, b) = "FAILED"
  BY DEF StatusAfterEvent, EffectiveOrderCommandStatus, TerminalStatuses, Rank, Statuses,
         BoundaryStates, Known, Sent

\* The order whose event is recorded: its fingerprint, and what was its past before.
LEMMA RecordStep ==
  ASSUME IInv, NEW c \in Orders, NEW type \in Sent \cup {"order_pre_ack"}, Record(c, type)
  PROVE  /\ status' \in [Orders -> Statuses]
         /\ boundary' \in [Orders -> Boundaries]
         /\ evidence' \in [Orders -> SUBSET ReachTypes]
         /\ version' \in Nat
         /\ \A k \in Orders : k # c => /\ status'[k] = status[k]
                                       /\ boundary'[k] = boundary[k]
                                       /\ evidence'[k] = evidence[k]
         /\ boundary'[c].state \in Known
         /\ boundary[c].preAck => boundary'[c].preAck
         /\ type = "order_pre_ack" => boundary'[c].preAck
         /\ Reach(c) => Reach(c)'
         /\ ~Reach(c)' => type = "command_failed" /\ boundary'[c] = boundary[c]
                            /\ evidence'[c] = evidence[c] /\ status'[c] = "FAILED"
<1>1. /\ status \in [Orders -> Statuses] /\ boundary \in [Orders -> Boundaries]
      /\ evidence \in [Orders -> SUBSET ReachTypes] /\ version \in Nat
      /\ boundary[c].state \in Known
  BY DEF IInv, TypeOK, StaysKnown
<1>2. boundary[c] \in Boundaries /\ status[c] \in Statuses /\ evidence[c] \subseteq ReachTypes
  BY <1>1
<1> DEFINE n == BoundaryAfterEvent(boundary[c], type)
           s == StatusAfterEvent(status[c], type, n)
           e == evidence[c] \cup ({type} \cap ReachTypes)
<1>3. /\ n \in Boundaries /\ n.state \in Known
      /\ boundary[c].preAck => n.preAck
      /\ boundary[c].started => n.started
      /\ type = "order_pre_ack" => n.preAck
      /\ type = "command_failed" => n = boundary[c]
  BY <1>1, <1>2, EventOnRow
<1>4. /\ s \in Statuses
      /\ type = "command_failed" /\ status[c] \in {"UNCONFIRMED", "FAILED"} => s = "FAILED"
  BY <1>2, <1>3, EventOnStatus
<1>5. boundary' = [boundary EXCEPT ![c] = n]
  BY DEF Record
<1>6. boundary'[c] = n
  BY <1>1, <1>5
<1>7. status' = [status EXCEPT ![c] = s] /\ evidence' = [evidence EXCEPT ![c] = e] /\ version' = version + 1
  BY <1>6 DEF Record
<1>8. status'[c] = s /\ evidence'[c] = e
  BY <1>1, <1>7
<1>9. type # "command_failed" => type \in ReachTypes
  BY DEF Sent, ReachTypes, EventTypes
<1>10. type = "command_failed" => type \notin ReachTypes
  BY DEF ReachTypes
<1> HIDE DEF n, s
<1>11. Reach(c) => Reach(c)'
  BY <1>3, <1>6, <1>8 DEF Reach
<1>12. ~Reach(c)' => type = "command_failed"
  BY <1>8, <1>9 DEF Reach
<1>13. type = "command_failed" => boundary'[c] = boundary[c] /\ evidence'[c] = evidence[c]
  BY <1>3, <1>6, <1>8, <1>10
<1>14. ~Reach(c)' => status[c] \in {"UNCONFIRMED", "FAILED"}
  BY <1>11 DEF IInv, NoEvidence
<1>15. ~Reach(c)' => status'[c] = "FAILED"
  BY <1>4, <1>8, <1>12, <1>14
<1> QED  BY <1>1, <1>3, <1>4, <1>5, <1>6, <1>7, <1>8, <1>11, <1>12, <1>13, <1>15

\* What was past stays past, of the order with the event and of the others.
LEMMA RecordKeepsPast ==
  ASSUME IInv, NEW c \in Orders, NEW type \in Sent \cup {"order_pre_ack"}, Record(c, type),
         NEW k \in Orders, NEW x, Past(k, x)
  PROVE  Past(k, x)'
<1>1. CASE k # c
  BY <1>1, RecordStep DEF Past, Fingerprint, Reach
<1>2. CASE k = c /\ Reach(c)'
  BY <1>2 DEF Past
<1>3. CASE k = c /\ ~Reach(c)'
  <2>1. /\ ~Reach(c) /\ boundary'[c] = boundary[c] /\ evidence'[c] = evidence[c]
        /\ status'[c] = "FAILED"
    BY <1>3, RecordStep
  <2>2. status[c] \in {"UNCONFIRMED", "FAILED"}
    BY <2>1 DEF IInv, NoEvidence
  <2>3. CASE x = Fingerprint(c) /\ status[c] = "FAILED"
    BY <1>3, <2>1, <2>3 DEF Past, Fingerprint
  <2>4. CASE x = Fingerprint(c) /\ status[c] = "UNCONFIRMED"
    BY <1>3, <2>1, <2>4 DEF Past, Fingerprint
  <2>5. CASE x.status = "UNCONFIRMED"
    BY <1>3, <2>1, <2>5 DEF Past
  <2> QED  BY <1>3, <2>1, <2>2, <2>3, <2>4, <2>5 DEF Past
<1> QED  BY <1>1, <1>2, <1>3

\* The parts of the invariant that speak of the core tables survive an event.
LEMMA RecordKeepsFacts ==
  ASSUME IInv, NEW c \in Orders, NEW type \in Sent \cup {"order_pre_ack"}, Record(c, type),
         UNCHANGED <<ledger, fence, day>>
  PROVE  NoEvidence' /\ FenceIsPast'
<1>1. NoEvidence'
  <2> SUFFICES ASSUME NEW k \in Orders, ~Reach(k)'
               PROVE  boundary'[k] = InDoubt /\ status'[k] \in {"UNCONFIRMED", "FAILED"}
    BY DEF NoEvidence
  <2>1. CASE k # c
    BY <2>1, RecordStep DEF IInv, NoEvidence, Reach
  <2>2. CASE k = c
    BY <2>2, RecordStep DEF IInv, NoEvidence
  <2> QED  BY <2>1, <2>2
<1>2. FenceIsPast'
  <2> SUFFICES ASSUME NEW k \in Orders, NEW i \in DOMAIN fence[k]
               PROVE  /\ fence[k][i].day <= day
                      /\ fence[k][i].res \in 1..Len(ledger[k])
                      /\ Past(k, fence[k][i].fp)'
    BY DEF FenceIsPast
  <2>1. /\ fence[k][i].day <= day /\ fence[k][i].res \in 1..Len(ledger[k])
        /\ Past(k, fence[k][i].fp)
    BY DEF IInv, FenceIsPast
  <2>2. Past(k, fence[k][i].fp)'
    <3>1. Past(k, fence[k][i].fp)
      BY <2>1
    <3> DEFINE x == fence[k][i].fp
    <3>2. x' = x
      OBVIOUS
    <3>3. /\ x.row = InDoubt /\ x.evidence = {}
          /\ x = Fingerprint(k)' \/ Reach(k)' \/ (x.status = "UNCONFIRMED" /\ status'[k] = "FAILED")
      BY <3>1, RecordKeepsPast DEF Past
    <3> QED  BY <3>2, <3>3 DEF Past
  <2> QED  BY <2>1, <2>2
<1> QED  BY <1>1, <1>2

-----------------------------------------------------------------------------
(* The ledgers *)

\* The place of the row in force: the last one, or none (active_resolution, active_release).
LEMMA InForcePlace ==
  ASSUME NEW R, NEW rows \in Seq(R), NEW action
  PROVE  /\ InForce(rows, action) \in Nat
         /\ InForce(rows, action) # 0 =>
              /\ InForce(rows, action) = Len(rows)
              /\ Len(rows) \in DOMAIN rows
              /\ rows[Len(rows)].action = action
<1>1. Len(rows) \in Nat /\ DOMAIN rows = 1..Len(rows) /\ (rows = <<>> <=> Len(rows) = 0)
  BY EmptySeq
<1> QED  BY <1>1 DEF InForce

\* A row appended where the chain expects it keeps the resolution ledger valid.
LEMMA ResolutionChainGrows ==
  ASSUME NEW rows \in Seq(ResolutionRows), ResolutionChainValid(rows), NEW row \in ResolutionRows,
         \/ InForce(rows, "RESOLVE") = 0 /\ row.action = "RESOLVE" /\ row.supersedes = 0
         \/ /\ InForce(rows, "RESOLVE") # 0 /\ row.action = "REVOKE"
            /\ row.supersedes = InForce(rows, "RESOLVE")
  PROVE  ResolutionChainValid(Append(rows, row))
<1> DEFINE n == Len(rows)
           new == Append(rows, row)
<1>1. n \in Nat /\ DOMAIN rows = 1..n /\ (rows = <<>> <=> n = 0)
  BY EmptySeq
<1>2. /\ DOMAIN new = 1..(n + 1) /\ new[n + 1] = row
      /\ \A i \in 1..n : new[i] = rows[i]
  <2>1. new \in Seq(ResolutionRows) /\ Len(new) = n + 1
    BY AppendProperties
  <2> QED  BY <2>1, AppendProperties
<1>3. CASE n % 2 = 0
  <2>1. InForce(rows, "RESOLVE") = 0
    <3>1. n # 0 => rows[n].action = "REVOKE"
      BY <1>1, <1>3 DEF ResolutionChainValid
    <3> QED  BY <1>1, <3>1 DEF InForce
  <2>2. (n + 1) % 2 = 1
    BY <1>1, <1>3
  <2> QED  BY <1>1, <1>2, <2>1, <2>2 DEF ResolutionChainValid
<1>4. CASE n % 2 = 1
  <2>1. n # 0 /\ InForce(rows, "RESOLVE") = n
    <3>1. rows[n].action = "RESOLVE" /\ n # 0
      BY <1>1, <1>4 DEF ResolutionChainValid
    <3> QED  BY <1>1, <3>1 DEF InForce
  <2>2. (n + 1) % 2 = 0
    BY <1>1, <1>4
  <2> QED  BY <1>1, <1>2, <2>1, <2>2 DEF ResolutionChainValid
<1> QED  BY <1>1, <1>3, <1>4

\* Likewise for the fence ledger.
LEMMA FenceChainGrows ==
  ASSUME NEW rows \in Seq(FenceRows), FenceChainValid(rows), NEW row \in FenceRows,
         row.supersedes = Len(rows),
         \/ InForce(rows, "RELEASE") = 0 /\ row.action = "RELEASE"
         \/ /\ InForce(rows, "RELEASE") # 0 /\ row.action = "REINSTATE"
            /\ row.res = rows[InForce(rows, "RELEASE")].res
            /\ row.fp = rows[InForce(rows, "RELEASE")].fp
  PROVE  FenceChainValid(Append(rows, row))
<1> DEFINE n == Len(rows)
           new == Append(rows, row)
<1>1. n \in Nat /\ DOMAIN rows = 1..n /\ (rows = <<>> <=> n = 0)
  BY EmptySeq
<1>2. /\ DOMAIN new = 1..(n + 1) /\ new[n + 1] = row
      /\ \A i \in 1..n : new[i] = rows[i]
  <2>1. new \in Seq(FenceRows) /\ Len(new) = n + 1
    BY AppendProperties
  <2> QED  BY <2>1, AppendProperties
<1>3. CASE n % 2 = 0
  <2>1. InForce(rows, "RELEASE") = 0
    <3>1. n # 0 => rows[n].action = "REINSTATE"
      BY <1>1, <1>3 DEF FenceChainValid
    <3> QED  BY <1>1, <3>1 DEF InForce
  <2>2. (n + 1) % 2 = 1
    BY <1>1, <1>3
  <2> QED  BY <1>1, <1>2, <2>1, <2>2 DEF FenceChainValid
<1>4. CASE n % 2 = 1
  <2>1. n # 0 /\ InForce(rows, "RELEASE") = n
    <3>1. rows[n].action = "RELEASE" /\ n # 0
      BY <1>1, <1>4 DEF FenceChainValid
    <3> QED  BY <1>1, <3>1 DEF InForce
  <2>2. (n + 1) % 2 = 0
    BY <1>1, <1>4
  <2> QED  BY <1>1, <1>2, <2>1, <2>2 DEF FenceChainValid
<1> QED  BY <1>1, <1>3, <1>4

-----------------------------------------------------------------------------
(* The invariant is inductive *)

\* Where the core tables, the day and the ledgers stay, so does what is said of them.
LEMMA FactsStay ==
  ASSUME IInv, UNCHANGED <<core, ledgers, day>>
  PROVE  NoEvidence' /\ FenceIsPast' /\ LedgersValid'
<1> USE DEF core, ledgers
<1>1. NoEvidence'
  BY DEF IInv, NoEvidence, Reach
<1>2. FenceIsPast'
  BY DEF IInv, FenceIsPast, Past, Fingerprint, Reach
<1>3. LedgersValid'
  BY DEF IInv, LedgersValid
<1> QED  BY <1>1, <1>2, <1>3

\* A request that an operator has prepared.
LEMMA RequestTyped ==
  ASSUME LedgerTypes, NEW o \in Operators, request[o].action # "none"
  PROVE  request[o] \in Requests
  BY DEF LedgerTypes

\* The fingerprint of an order is one.
LEMMA FingerprintTyped ==
  ASSUME TypeOK, NEW c \in Orders
  PROVE  Fingerprint(c) \in Fingerprints
  BY DEF TypeOK, Fingerprint, Fingerprints

\* A preview changes the request of its operator only.
LEMMA PrepareKeeps ==
  ASSUME IInv, NEW o \in Operators, NEW c \in Orders,
         NEW action \in {"RESOLVE", "REVOKE", "RELEASE", "REINSTATE"}, Prepare(o, c, action)
  PROVE  IInv'
<1> DEFINE release == fence[c][ActiveRelease(c)]
           res == IF action = "REINSTATE" THEN release.res ELSE Active(c)
           fp == IF action = "REINSTATE" THEN release.fp ELSE Fingerprint(c)
           r == [action |-> action, id |-> asked + 1, order |-> c, version |-> version,
                 day |-> day, prev |-> Len(fence[c]), res |-> res, fp |-> fp]
<1>1. /\ ledger[c] \in Seq(ResolutionRows) /\ fence[c] \in Seq(FenceRows)
      /\ version \in Nat /\ asked \in Nat /\ day \in Nat
  BY DEF IInv, LedgerTypes, TypeOK
<1>2. Active(c) \in Nat
  BY <1>1, InForcePlace DEF Active
<1>3. action = "REINSTATE" => release \in FenceRows
  <2>1. action = "REINSTATE" => ActiveRelease(c) # 0
    BY DEF Prepare, Eligible
  <2>2. ActiveRelease(c) # 0 => ActiveRelease(c) \in DOMAIN fence[c]
    BY <1>1, InForcePlace DEF ActiveRelease
  <2> QED  BY <1>1, <2>1, <2>2, ElementOfSeq
<1>4. fp \in Fingerprints
  <2>1. Fingerprint(c) \in Fingerprints
    BY FingerprintTyped DEF IInv
  <2>2. action = "REINSTATE" => release.fp \in Fingerprints
    BY <1>3 DEF FenceRows
  <2> QED  BY <2>1, <2>2
<1>5. res \in Nat
  <2>1. action = "REINSTATE" => release.res \in Nat
    BY <1>3 DEF FenceRows
  <2> QED  BY <1>2, <2>1
<1>6. r \in Requests
  <2>1. Len(fence[c]) \in Nat
    BY <1>1
  <2> HIDE DEF res, fp
  <2> QED  BY <1>1, <1>4, <1>5, <2>1 DEF Requests
<1>7. request' = [request EXCEPT ![o] = r] /\ asked' = asked + 1
  BY DEF Prepare
<1>8. UNCHANGED <<core, ledgers, other, version, gateway, day>>
  BY DEF Prepare
<1> HIDE DEF r
<1>9. LedgerTypes'
  BY <1>6, <1>7, <1>8 DEF IInv, LedgerTypes, ledgers
<1>10. TypeOK'
  BY <1>1, <1>7, <1>8 DEF IInv, TypeOK, core, gateway
<1>11. BrokerTold' /\ StaysKnown'
  BY <1>8 DEF IInv, BrokerTold, StaysKnown, core, gateway
<1> QED  BY <1>8, <1>9, <1>10, <1>11, FactsStay DEF IInv

\* A resolution or a revocation.
LEMMA AppendResolutionKeeps ==
  ASSUME IInv, NEW o \in Operators, Resolve(o) \/ Revoke(o)
  PROVE  IInv'
<1> DEFINE r == request[o]
           c == r.order
<1>1. r \in Requests /\ r.action \in {"RESOLVE", "REVOKE"}
  <2>1. r.action \in {"RESOLVE", "REVOKE"}
    BY DEF Resolve, Revoke
  <2> QED  BY <2>1, RequestTyped DEF IInv
<1>2. c \in Orders /\ r.id \in Nat /\ r.res \in Nat
  BY <1>1 DEF Requests
<1>3. /\ ledger \in [Orders -> Seq(ResolutionRows)] /\ ledger[c] \in Seq(ResolutionRows)
      /\ ResolutionChainValid(ledger[c])
  BY <1>2 DEF IInv, LedgerTypes, LedgersValid
<1>4. PICK s \in Nat :
        /\ AppendResolution(r, s)
        /\ \/ InForce(ledger[c], "RESOLVE") = 0 /\ r.action = "RESOLVE" /\ s = 0
           \/ /\ InForce(ledger[c], "RESOLVE") # 0 /\ r.action = "REVOKE"
              /\ s = InForce(ledger[c], "RESOLVE")
  <2>1. CASE Resolve(o)
    BY <2>1 DEF Resolve, Active
  <2>2. CASE Revoke(o)
    BY <1>2, <2>2 DEF Revoke, Active
  <2> QED  BY <2>1, <2>2
<1> DEFINE row == [action |-> r.action, id |-> r.id, supersedes |-> s, fp |-> Fingerprint(c)]
<1>5. row \in ResolutionRows
  <2>1. Fingerprint(c) \in Fingerprints
    BY <1>2, FingerprintTyped DEF IInv
  <2> QED  BY <1>1, <1>2, <2>1 DEF ResolutionRows
<1>6. /\ ledger' = [ledger EXCEPT ![c] = Append(@, row)]
      /\ UNCHANGED <<core, fence, other, version, gateway, asking, day>>
  BY <1>4 DEF AppendResolution
<1>7. ResolutionChainValid(Append(ledger[c], row))
  <2>1. row.action = r.action /\ row.supersedes = s
    OBVIOUS
  <2> HIDE DEF row, r
  <2> QED  BY <1>3, <1>4, <1>5, <2>1, ResolutionChainGrows
<1>8. Append(ledger[c], row) \in Seq(ResolutionRows) /\ Len(Append(ledger[c], row)) = Len(ledger[c]) + 1
  BY <1>3, <1>5, AppendProperties
<1> HIDE DEF row
<1>9. LedgerTypes'
  BY <1>2, <1>3, <1>6, <1>8 DEF IInv, LedgerTypes, asking
<1>10. LedgersValid'
  BY <1>2, <1>3, <1>6, <1>7 DEF IInv, LedgersValid
<1>11. TypeOK' /\ BrokerTold' /\ StaysKnown'
  BY <1>6 DEF IInv, TypeOK, BrokerTold, StaysKnown, core, gateway, asking
<1>12. NoEvidence'
  BY <1>6 DEF IInv, NoEvidence, Reach, core
<1>13. FenceIsPast'
  <2> SUFFICES ASSUME NEW k \in Orders, NEW i \in DOMAIN fence[k]
               PROVE  /\ fence[k][i].day <= day
                      /\ fence[k][i].res \in 1..Len(ledger'[k])
                      /\ Past(k, fence[k][i].fp)'
    BY <1>6 DEF FenceIsPast
  <2>1. /\ fence[k][i].day <= day /\ fence[k][i].res \in 1..Len(ledger[k])
        /\ Past(k, fence[k][i].fp)
    BY DEF IInv, FenceIsPast
  <2>2. Past(k, fence[k][i].fp)'
    BY <1>6, <2>1 DEF Past, Fingerprint, Reach, core
  <2>3. Len(ledger'[k]) = Len(ledger[k]) \/ Len(ledger'[k]) = Len(ledger[k]) + 1
    BY <1>2, <1>3, <1>6, <1>8
  <2>4. Len(ledger[k]) \in Nat
    BY <1>3
  <2> QED  BY <2>1, <2>2, <2>3, <2>4
<1> QED  BY <1>9, <1>10, <1>11, <1>12, <1>13 DEF IInv

\* A release or a reinstatement of the fence.
LEMMA AppendFenceEventKeeps ==
  ASSUME IInv, NEW o \in Operators, Release(o) \/ Reinstate(o)
  PROVE  IInv'
<1> DEFINE r == request[o]
           c == r.order
           row == [action |-> r.action, id |-> r.id, supersedes |-> r.prev, res |-> r.res,
                   fp |-> r.fp, day |-> r.day]
<1>1. r \in Requests /\ r.action \in {"RELEASE", "REINSTATE"}
  <2>1. r.action \in {"RELEASE", "REINSTATE"}
    BY DEF Release, Reinstate
  <2> QED  BY <2>1, RequestTyped DEF IInv
<1>2. /\ c \in Orders /\ r.id \in Nat /\ r.res \in Nat /\ r.prev \in Nat /\ r.day \in Nat
      /\ r.fp \in Fingerprints
  BY <1>1 DEF Requests
<1>3. /\ fence \in [Orders -> Seq(FenceRows)] /\ fence[c] \in Seq(FenceRows)
      /\ FenceChainValid(fence[c]) /\ ledger[c] \in Seq(ResolutionRows)
  BY <1>2 DEF IInv, LedgerTypes, LedgersValid
<1>4. AppendFenceEvent(r) /\ r.day = day /\ r.prev = Len(fence[c])
  BY DEF Release, Reinstate, ApprovalFresh
<1>5. row \in FenceRows
  BY <1>1, <1>2 DEF FenceRows
<1>6. /\ fence' = [fence EXCEPT ![c] = Append(@, row)]
      /\ UNCHANGED <<core, ledger, other, version, gateway, asking, day>>
  BY <1>4 DEF AppendFenceEvent
<1>7. /\ row.action = r.action /\ row.supersedes = Len(fence[c]) /\ row.res = r.res
      /\ row.fp = r.fp /\ row.day = day
  BY <1>4
<1> HIDE DEF row
<1>8. \/ ActiveRelease(c) = 0 /\ r.action = "RELEASE" /\ Effective(c) /\ r.res = Active(c)
           /\ r.fp = Fingerprint(c)
      \/ ActiveRelease(c) # 0 /\ r.action = "REINSTATE"
           /\ r.res = fence[c][ActiveRelease(c)].res /\ r.fp = fence[c][ActiveRelease(c)].fp
  <2>1. CASE Release(o)
    BY <2>1 DEF Release
  <2>2. CASE Reinstate(o)
    BY <2>2 DEF Reinstate
  <2> QED  BY <2>1, <2>2
<1>9. FenceChainValid(Append(fence[c], row))
  <2> HIDE DEF r
  <2> QED  BY <1>3, <1>5, <1>7, <1>8, FenceChainGrows DEF ActiveRelease
<1>10. /\ Append(fence[c], row) \in Seq(FenceRows)
       /\ DOMAIN Append(fence[c], row) = 1..(Len(fence[c]) + 1)
       /\ Append(fence[c], row)[Len(fence[c]) + 1] = row
       /\ \A i \in 1..Len(fence[c]) : Append(fence[c], row)[i] = fence[c][i]
  <2>1. Append(fence[c], row) \in Seq(FenceRows) /\ Len(Append(fence[c], row)) = Len(fence[c]) + 1
    BY <1>3, <1>5, AppendProperties
  <2> QED  BY <1>3, <1>5, <2>1, AppendProperties
<1>11. row.res \in 1..Len(ledger[c]) /\ Past(c, row.fp)
  <2>1. CASE ActiveRelease(c) = 0
    <3>1. Effective(c) /\ r.res = Active(c) /\ r.fp = Fingerprint(c)
      BY <1>8, <2>1
    <3>2. Active(c) # 0 /\ ~Reach(c)
      BY <3>1 DEF Effective
    <3>3. Active(c) \in 1..Len(ledger[c])
      BY <1>3, <3>2, InForcePlace DEF Active
    <3>4. boundary[c] = InDoubt
      BY <1>2, <3>2 DEF IInv, NoEvidence
    <3>5. evidence[c] = {}
      BY <3>2 DEF Reach
    <3> QED  BY <1>7, <3>1, <3>3, <3>4, <3>5 DEF Past, Fingerprint
  <2>2. CASE ActiveRelease(c) # 0
    <3>1. ActiveRelease(c) \in DOMAIN fence[c]
      BY <1>3, <2>2, InForcePlace DEF ActiveRelease
    <3> QED  BY <1>2, <1>7, <1>8, <2>2, <3>1 DEF IInv, FenceIsPast
  <2> QED  BY <2>1, <2>2
<1>12. LedgerTypes'
  BY <1>2, <1>3, <1>6, <1>10 DEF IInv, LedgerTypes, asking
<1>13. LedgersValid'
  BY <1>2, <1>3, <1>6, <1>9 DEF IInv, LedgersValid
<1>14. TypeOK' /\ BrokerTold' /\ StaysKnown'
  BY <1>6 DEF IInv, TypeOK, BrokerTold, StaysKnown, core, gateway, asking
<1>15. NoEvidence'
  BY <1>6 DEF IInv, NoEvidence, Reach, core
<1>16. FenceIsPast'
  <2> SUFFICES ASSUME NEW k \in Orders, NEW i \in DOMAIN fence'[k]
               PROVE  /\ fence'[k][i].day <= day
                      /\ fence'[k][i].res \in 1..Len(ledger[k])
                      /\ Past(k, fence[k][i].fp)'
    BY <1>6 DEF FenceIsPast
  <2>1. \A x : Past(k, x) => Past(k, x)'
    BY <1>6 DEF Past, Fingerprint, Reach, core
  <2>2. /\ fence'[k][i].day <= day /\ fence'[k][i].res \in 1..Len(ledger[k])
        /\ Past(k, fence'[k][i].fp)
    <3>1. CASE k = c /\ i = Len(fence[c]) + 1
      <4>1. fence'[k][i] = row
        BY <1>2, <1>3, <1>6, <1>10, <3>1
      <4>2. day \in Nat
        BY DEF IInv, TypeOK
      <4> QED  BY <1>7, <1>11, <3>1, <4>1, <4>2
    <3>2. CASE ~(k = c /\ i = Len(fence[c]) + 1)
      <4>1. i \in DOMAIN fence[k] /\ fence'[k][i] = fence[k][i]
        BY <1>2, <1>3, <1>6, <1>10, <3>2
      <4> QED  BY <4>1 DEF IInv, FenceIsPast
    <3> QED  BY <3>1, <3>2
  <2>3. Past(k, fence[k][i].fp)'
    BY <2>2, <1>6 DEF Past, Fingerprint, Reach, core
  <2> QED  BY <2>2, <2>3
<1> QED  BY <1>12, <1>13, <1>14, <1>15, <1>16 DEF IInv

\* The gateway and the broker.
LEMMA GatewayKeeps ==
  ASSUME IInv, NEW c \in Orders,
         \/ StartCommand(c) \/ PreAck(c) \/ CallBroker(c) \/ FailCommand(c) \/ LoseGateway(c)
         \/ \E type \in EventTypes : Deliver(c, type)
  PROVE  IInv'
<1>1. /\ gw \in [Orders -> {"held", "started", "preacked", "done"}]
      /\ pending \in [Orders -> SUBSET EventTypes] /\ reached \subseteq Orders
      /\ pending[c] \subseteq Sent /\ Sent \subseteq EventTypes
  BY DEF IInv, TypeOK, StaysKnown, Sent, EventTypes
<1>2. CASE StartCommand(c) \/ CallBroker(c) \/ FailCommand(c) \/ LoseGateway(c)
  <2>1. UNCHANGED <<core, ledgers, other, version, asking, day>>
    BY <1>2 DEF StartCommand, CallBroker, FailCommand, LoseGateway
  <2>2. PICK place \in {"started", "done"} : gw' = [gw EXCEPT ![c] = place]
    BY <1>2 DEF StartCommand, CallBroker, FailCommand, LoseGateway, Goto
  <2>3. PICK types \in SUBSET Sent : pending' = [pending EXCEPT ![c] = types]
    <3>1. CASE LoseGateway(c)
      BY <3>1 DEF LoseGateway
    <3>2. CASE StartCommand(c) \/ FailCommand(c)
      BY <1>1, <3>2 DEF StartCommand, FailCommand, Send, Sent
    <3>3. CASE CallBroker(c)
      BY <1>1, <3>3 DEF CallBroker, Send, Sent
    <3> QED  BY <1>2, <3>1, <3>2, <3>3
  <2>4. reached' = reached \/ (gw[c] = "preacked" /\ reached' = reached \cup {c})
    BY <1>2 DEF StartCommand, CallBroker, FailCommand, LoseGateway
  <2>5. TypeOK'
    BY <1>1, <2>1, <2>2, <2>3, <2>4 DEF IInv, TypeOK, core, asking
  <2>6. LedgerTypes'
    BY <2>1 DEF IInv, LedgerTypes, ledgers, asking
  <2>7. BrokerTold'
    BY <1>1, <2>1, <2>2, <2>4 DEF IInv, BrokerTold, core
  <2>8. StaysKnown'
    BY <1>1, <2>1, <2>3 DEF IInv, StaysKnown, core
  <2> QED  BY <2>1, <2>5, <2>6, <2>7, <2>8, FactsStay DEF IInv
<1>3. ASSUME NEW type \in Sent \cup {"order_pre_ack"}, Record(c, type),
             UNCHANGED <<ledgers, other, reached, asking, day>>,
             NEW place \in {"held", "started", "preacked", "done"}, gw' = [gw EXCEPT ![c] = place],
             place = "preacked" => type = "order_pre_ack" \/ gw[c] = "preacked",
             NEW types \in SUBSET Sent, pending' = [pending EXCEPT ![c] = types]
      PROVE  IInv'
  <2>1. /\ status' \in [Orders -> Statuses] /\ boundary' \in [Orders -> Boundaries]
        /\ evidence' \in [Orders -> SUBSET ReachTypes] /\ version' \in Nat
        /\ \A k \in Orders : k # c => boundary'[k] = boundary[k]
        /\ boundary'[c].state \in Known
        /\ boundary[c].preAck => boundary'[c].preAck
        /\ type = "order_pre_ack" => boundary'[c].preAck
    BY <1>3, RecordStep
  <2>2. TypeOK'
    BY <1>1, <1>3, <2>1 DEF IInv, TypeOK, asking
  <2>3. LedgerTypes' /\ LedgersValid'
    BY <1>3 DEF IInv, LedgerTypes, LedgersValid, ledgers, asking
  <2>4. BrokerTold'
    BY <1>1, <1>3, <2>1 DEF IInv, BrokerTold
  <2>5. StaysKnown'
    BY <1>1, <1>3, <2>1 DEF IInv, StaysKnown
  <2>6. NoEvidence' /\ FenceIsPast'
    BY <1>3, RecordKeepsFacts DEF ledgers
  <2> QED  BY <2>2, <2>3, <2>4, <2>5, <2>6 DEF IInv
<1>4. CASE PreAck(c)
  <2>1. /\ Record(c, "order_pre_ack") /\ UNCHANGED <<ledgers, other, reached, asking, day>>
        /\ gw' = [gw EXCEPT ![c] = "preacked"] /\ pending' = [pending EXCEPT ![c] = pending[c]]
    BY <1>1, <1>4 DEF PreAck, Goto
  <2> QED  BY <1>1, <1>3, <2>1
<1>5. ASSUME NEW type \in EventTypes, Deliver(c, type)
      PROVE  IInv'
  <2>1. /\ type \in Sent /\ Record(c, type) /\ UNCHANGED <<ledgers, other, reached, asking, day>>
        /\ gw' = [gw EXCEPT ![c] = gw[c]] /\ pending' = [pending EXCEPT ![c] = pending[c] \ {type}]
        /\ gw[c] \in {"held", "started", "preacked", "done"} /\ pending[c] \ {type} \subseteq Sent
    BY <1>1, <1>5 DEF Deliver
  <2> QED  BY <1>3, <2>1
<1> QED  BY <1>2, <1>4, <1>5

\* Every step keeps the invariant.
LEMMA StepKeeps ==
  ASSUME IInv, [Next]_vars
  PROVE  IInv'
<1>1. CASE UNCHANGED vars
  <2>1. UNCHANGED <<core, ledgers, other, version, gateway, asking, day>>
    BY <1>1 DEF vars
  <2>2. TypeOK' /\ LedgerTypes' /\ BrokerTold' /\ StaysKnown'
    BY <2>1 DEF IInv, TypeOK, LedgerTypes, BrokerTold, StaysKnown, core, ledgers, gateway, asking
  <2> QED  BY <2>1, <2>2, FactsStay DEF IInv
<1>2. CASE Enqueue \/ Claim \/ Finish
  <2>1. /\ UNCHANGED <<core, ledgers, gateway, asking, day>> /\ version' = version + 1
        /\ other' \in {"none", "queued", "active"}
    BY <1>2 DEF Enqueue, Claim, Finish, ChangeOther
  <2>2. TypeOK' /\ LedgerTypes' /\ BrokerTold' /\ StaysKnown'
    BY <2>1 DEF IInv, TypeOK, LedgerTypes, BrokerTold, StaysKnown, core, ledgers, gateway, asking
  <2> QED  BY <2>1, <2>2, FactsStay DEF IInv
<1>3. CASE NextDay
  <2>1. UNCHANGED <<core, ledgers, other, version, gateway, asking>> /\ day' = day + 1 /\ day \in Nat
    BY <1>3 DEF NextDay, IInv, TypeOK
  <2>2. TypeOK' /\ LedgerTypes' /\ BrokerTold' /\ StaysKnown' /\ LedgersValid'
    BY <2>1 DEF IInv, TypeOK, LedgerTypes, BrokerTold, StaysKnown, LedgersValid, core, ledgers,
                gateway, asking
  <2>3. NoEvidence'
    BY <2>1 DEF IInv, NoEvidence, Reach, core
  <2>4. FenceIsPast'
    <3> SUFFICES ASSUME NEW k \in Orders, NEW i \in DOMAIN fence[k]
                 PROVE  /\ fence[k][i].day <= day'
                        /\ fence[k][i].res \in 1..Len(ledger[k])
                        /\ Past(k, fence[k][i].fp)'
      BY <2>1 DEF FenceIsPast, ledgers
    <3>1. /\ fence[k][i].day <= day /\ fence[k][i].res \in 1..Len(ledger[k])
          /\ Past(k, fence[k][i].fp)
      BY DEF IInv, FenceIsPast
    <3>2. fence[k] \in Seq(FenceRows)
      BY DEF IInv, LedgerTypes
    <3>3. fence[k][i] \in FenceRows
      BY <3>2, ElementOfSeq
    <3>4. fence[k][i].day \in Nat
      BY <3>3 DEF FenceRows
    <3>5. Past(k, fence[k][i].fp)'
      BY <2>1, <3>1 DEF Past, Fingerprint, Reach, core, ledgers
    <3> QED  BY <2>1, <3>1, <3>4, <3>5
  <2> QED  BY <2>2, <2>3, <2>4 DEF IInv
<1>4. ASSUME NEW o \in Operators,
             \/ \E c \in Orders, action \in {"RESOLVE", "REVOKE", "RELEASE", "REINSTATE"} :
                  Prepare(o, c, action)
             \/ Resolve(o) \/ Revoke(o) \/ Release(o) \/ Reinstate(o)
      PROVE  IInv'
  BY <1>4, PrepareKeeps, AppendResolutionKeeps, AppendFenceEventKeeps
<1>5. ASSUME NEW c \in Orders,
             \/ StartCommand(c) \/ PreAck(c) \/ CallBroker(c) \/ FailCommand(c) \/ LoseGateway(c)
             \/ \E type \in EventTypes : Deliver(c, type)
      PROVE  IInv'
  BY <1>5, GatewayKeeps
<1> QED  BY <1>1, <1>2, <1>3, <1>4, <1>5 DEF Next

\* It holds when the orders have just timed out.
LEMMA InitKeeps ==
  ASSUME Init
  PROVE  IInv
<1>1. InDoubt \in Boundaries /\ boundary = [c \in Orders |-> InDoubt]
  BY DEF InDoubt, Boundaries, BoundaryStates, Init
<1>2. TypeOK
  <2>1. boundary \in [Orders -> Boundaries]
    BY <1>1
  <2>2. status \in [Orders -> Statuses]
    BY DEF Init, Statuses, BoundaryStates
  <2>3. evidence \in [Orders -> SUBSET ReachTypes] /\ pending \in [Orders -> SUBSET EventTypes]
    BY DEF Init
  <2>4. gw \in [Orders -> {"held", "started", "preacked", "done"}] /\ reached \subseteq Orders
    BY DEF Init
  <2>5. other \in {"none", "queued", "active"} /\ {version, asked, day} \subseteq Nat
    BY DEF Init
  <2> QED  BY <2>1, <2>2, <2>3, <2>4, <2>5 DEF TypeOK
<1>3. LedgerTypes
  BY EmptySeq DEF Init, LedgerTypes
<1>4. LedgersValid
  BY DEF Init, LedgersValid, ResolutionChainValid, FenceChainValid
<1>5. BrokerTold
  BY DEF Init, BrokerTold
<1>6. StaysKnown
  BY <1>1 DEF Init, StaysKnown, Known, InDoubt
<1>7. NoEvidence
  BY <1>1 DEF Init, NoEvidence
<1>8. FenceIsPast
  BY DEF Init, FenceIsPast
<1> QED  BY <1>2, <1>3, <1>4, <1>5, <1>6, <1>7, <1>8 DEF IInv

\* The invariant of every behaviour.
LEMMA Inductive == Spec => []IInv
<1>1. Init => IInv
  BY InitKeeps
<1>2. IInv /\ [Next]_vars => IInv'
  BY StepKeeps
<1> QED  BY <1>1, <1>2, PTL DEF Spec

-----------------------------------------------------------------------------
(* The theorems *)

\* The tables, the requests in flight and the gateway keep their types.
THEOREM ResolutionTypeCorrect == Spec => []TypeOK
<1>1. IInv => TypeOK
  BY DEF IInv
<1> QED  BY <1>1, Inductive, PTL

\* Whatever operators preview, apply late and repeat, both append-only ledgers stay
\* valid chains (_validate_resolution_chain, _validate_fence_event_chain).
THEOREM LedgersStayValid == Spec => []LedgersValid
<1>1. IInv => LedgersValid
  BY DEF IInv
<1> QED  BY <1>1, Inductive, PTL

\* A claim leaves the ledgers, the boundary rows and the broker alone and is the only step
\* that makes the other order active; an order at the broker has a pre-ack, so that no
\* resolution of it is EFFECTIVE and it fences while it is UNCONFIRMED.
THEOREM NoClaimInDoubt == Spec => ClaimOnlyWithoutDoubt
<1> DEFINE Safe == other = "queued" /\ other' = "active" =>
                     \A c \in reached : boundary[c].state \in {"BROKER_ACCEPTED", "CHEJAN_CONFIRMED"}
<1>1. ASSUME IInv, [Next]_vars
      PROVE  [Safe]_vars
  <2> SUFFICES ASSUME other = "queued", other' = "active", NEW c \in reached
               PROVE  boundary[c].state \in {"BROKER_ACCEPTED", "CHEJAN_CONFIRMED"}
    OBVIOUS
  <2>1. Claim
    <3>1. other' # other
      OBVIOUS
    <3>2. ~(Enqueue \/ Finish \/ NextDay)
      BY <3>1 DEF Enqueue, Finish, NextDay, ChangeOther
    <3>3. \A o \in Operators :
            /\ \A k \in Orders, action \in {"RESOLVE", "REVOKE", "RELEASE", "REINSTATE"} :
                 ~Prepare(o, k, action)
            /\ ~Resolve(o) /\ ~Revoke(o) /\ ~Release(o) /\ ~Reinstate(o)
      BY <3>1 DEF Prepare, Resolve, Revoke, Release, Reinstate, AppendResolution, AppendFenceEvent
    <3>4. \A k \in Orders :
            /\ ~StartCommand(k) /\ ~PreAck(k) /\ ~CallBroker(k) /\ ~FailCommand(k) /\ ~LoseGateway(k)
            /\ \A type \in EventTypes : ~Deliver(k, type)
      BY <3>1 DEF StartCommand, PreAck, CallBroker, FailCommand, LoseGateway, Deliver
    <3>5. Next
      BY <1>1, <3>1 DEF vars
    <3> QED  BY <3>2, <3>3, <3>4, <3>5 DEF Next
  <2>2. c \in Orders /\ boundary[c].preAck /\ boundary[c].state \in Known
    BY <1>1 DEF IInv, TypeOK, BrokerTold, StaysKnown
  <2>3. ~Effective(c)
    BY <2>2 DEF Effective, Reach
  <2>4. ~Blocks(c)
    BY <2>1, <2>2 DEF Claim
  <2>5. boundary[c].state # "UNCONFIRMED"
    BY <2>3, <2>4 DEF Blocks
  <2> QED  BY <2>2, <2>5 DEF Known
<1> QED  BY <1>1, Inductive, PTL DEF Spec, ClaimOnlyWithoutDoubt

\* What a step may change of an order: days and evidence grow, an order without evidence
\* can only fail, and a ledger gets at most one row.
LEMMA StepGrows ==
  ASSUME IInv, [Next]_vars, NEW c \in Orders
  PROVE  /\ day <= day'
         /\ Reach(c) => Reach(c)'
         /\ ~Reach(c)' => /\ boundary'[c] = boundary[c] /\ evidence'[c] = evidence[c]
                          /\ status'[c] = status[c] \/ status'[c] = "FAILED"
         /\ ledger'[c] = ledger[c] \/ Len(ledger'[c]) = Len(ledger[c]) + 1
<1>1. day \in Nat /\ ledger \in [Orders -> Seq(ResolutionRows)]
  BY DEF IInv, TypeOK, LedgerTypes
<1> DEFINE Grows ==
             /\ Reach(c) => Reach(c)'
             /\ ~Reach(c)' => /\ boundary'[c] = boundary[c] /\ evidence'[c] = evidence[c]
                              /\ status'[c] = status[c] \/ status'[c] = "FAILED"
<1>2. UNCHANGED core => Grows
  BY DEF core, Reach
<1>3. CASE UNCHANGED vars \/ Enqueue \/ Claim \/ Finish \/ NextDay
  <2>1. UNCHANGED <<core, ledger>> /\ (day' = day \/ day' = day + 1)
    BY <1>3 DEF vars, Enqueue, Claim, Finish, NextDay, ChangeOther, ledgers
  <2> QED  BY <1>1, <1>2, <2>1
<1>4. ASSUME NEW o \in Operators,
             \/ \E k \in Orders, action \in {"RESOLVE", "REVOKE", "RELEASE", "REINSTATE"} :
                  Prepare(o, k, action)
             \/ Release(o) \/ Reinstate(o)
      PROVE  UNCHANGED <<core, ledger, day>>
  BY <1>4 DEF Prepare, Release, Reinstate, AppendFenceEvent, ledgers
<1>5. ASSUME NEW o \in Operators, Resolve(o) \/ Revoke(o)
      PROVE  /\ UNCHANGED <<core, day>>
             /\ ledger'[c] = ledger[c] \/ Len(ledger'[c]) = Len(ledger[c]) + 1
  <2>1. PICK r, row : /\ ledger' = [ledger EXCEPT ![r] = Append(@, row)]
                      /\ UNCHANGED <<core, day>>
    BY <1>5 DEF Resolve, Revoke, AppendResolution
  <2>2. CASE r = c
    <3>1. ledger'[c] = Append(ledger[c], row)
      BY <1>1, <2>1, <2>2
    <3>2. Len(ledger'[c]) = Len(ledger[c]) + 1
      BY <1>1, <3>1
    <3> QED  BY <2>1, <3>2
  <2>3. CASE r # c
    BY <1>1, <2>1, <2>3
  <2> QED  BY <2>2, <2>3
<1>6. ASSUME NEW k \in Orders, StartCommand(k) \/ CallBroker(k) \/ FailCommand(k) \/ LoseGateway(k)
      PROVE  UNCHANGED <<core, ledger, day>>
  BY <1>6 DEF StartCommand, CallBroker, FailCommand, LoseGateway, ledgers
<1>7. ASSUME NEW k \in Orders, NEW type \in Sent \cup {"order_pre_ack"}, Record(k, type)
      PROVE  Grows
  <2>1. CASE k = c
    BY <1>7, <2>1, RecordStep
  <2>2. CASE k # c
    <3>1. status'[c] = status[c] /\ boundary'[c] = boundary[c] /\ evidence'[c] = evidence[c]
      BY <1>7, <2>2, RecordStep
    <3> QED  BY <3>1 DEF Reach
  <2> QED  BY <2>1, <2>2
<1>8. ASSUME NEW k \in Orders, PreAck(k)
      PROVE  Grows /\ UNCHANGED <<ledger, day>>
  BY <1>7, <1>8 DEF PreAck, ledgers
<1>9. ASSUME NEW k \in Orders, NEW type \in EventTypes, Deliver(k, type)
      PROVE  Grows /\ UNCHANGED <<ledger, day>>
  <2>1. type \in Sent
    BY <1>9 DEF Deliver, IInv, StaysKnown
  <2> QED  BY <1>7, <1>9, <2>1 DEF Deliver, ledgers
<1> DEFINE Goal == /\ Grows /\ day <= day'
                   /\ ledger'[c] = ledger[c] \/ Len(ledger'[c]) = Len(ledger[c]) + 1
<1> HIDE DEF Grows
<1>10. \A o \in Operators :
         \/ \E k \in Orders, action \in {"RESOLVE", "REVOKE", "RELEASE", "REINSTATE"} :
              Prepare(o, k, action)
         \/ Resolve(o) \/ Revoke(o) \/ Release(o) \/ Reinstate(o)
         => Goal
  BY <1>1, <1>2, <1>4, <1>5
<1>11. \A k \in Orders :
         \/ StartCommand(k) \/ PreAck(k) \/ CallBroker(k) \/ FailCommand(k) \/ LoseGateway(k)
         \/ \E type \in EventTypes : Deliver(k, type)
         => Goal
  BY <1>1, <1>2, <1>6, <1>8, <1>9
<1>12. Enqueue \/ Claim \/ Finish \/ NextDay \/ UNCHANGED vars => Goal
  BY <1>3 DEF Grows
<1> HIDE DEF Goal
<1>13. Goal
  BY <1>10, <1>11, <1>12 DEF Next
<1> QED  BY <1>13 DEF Goal, Grows

\* A release that no longer opens the fence stays shut: its day has passed, its resolution
\* has been revoked and a new one has another place, or something became known of the
\* order, and what is known only grows.  Only a new fence event opens it again.
THEOREM ReleasesNeverRevive == Spec => ReleaseNeverRevives
<1> DEFINE Shut == \A c \in Orders :
                     ActiveRelease(c) # 0 /\ ~Released(c) /\ fence'[c] = fence[c] => ~Released(c)'
<1>1. ASSUME IInv, IInv', [Next]_vars
      PROVE  Shut
  <2> SUFFICES ASSUME NEW c \in Orders, ActiveRelease(c) # 0, fence'[c] = fence[c], Released(c)'
               PROVE  Released(c)
    OBVIOUS
  <2> DEFINE f == fence[c][ActiveRelease(c)]
  <2>1. ActiveRelease(c)' = ActiveRelease(c)
    BY DEF ActiveRelease
  <2>2. /\ Effective(c)' /\ f.day = day' /\ f.res = Active(c)' /\ f.fp = Fingerprint(c)'
    BY <2>1 DEF Released
  <2>3. ActiveRelease(c) \in DOMAIN fence[c] /\ f \in FenceRows
    <3>1. fence[c] \in Seq(FenceRows)
      BY <1>1 DEF IInv, LedgerTypes
    <3>2. ActiveRelease(c) \in DOMAIN fence[c]
      BY <3>1, InForcePlace DEF ActiveRelease
    <3> QED  BY <3>1, <3>2, ElementOfSeq
  <2>4. f.day <= day /\ f.res \in 1..Len(ledger[c]) /\ Past(c, f.fp)
    BY <1>1, <2>3 DEF IInv, FenceIsPast
  <2>5. ~Reach(c)'
    BY <2>2 DEF Effective
  <2>6. /\ ~Reach(c) /\ boundary'[c] = boundary[c] /\ evidence'[c] = evidence[c]
        /\ (status'[c] = status[c] \/ status'[c] = "FAILED") /\ day <= day'
        /\ ledger'[c] = ledger[c] \/ Len(ledger'[c]) = Len(ledger[c]) + 1
    BY <1>1, <2>5, StepGrows
  <2>7. f.fp = Fingerprint(c)
    <3>1. f.fp.status = status'[c]
      BY <2>2 DEF Fingerprint
    <3>2. CASE f.fp.status = "UNCONFIRMED" /\ status[c] = "FAILED"
      BY <2>6, <3>1, <3>2
    <3> QED  BY <2>4, <2>6, <3>2 DEF Past
  <2>8. f.day = day
    <3>1. f.day \in Nat /\ day \in Nat /\ day' \in Nat
      BY <1>1, <2>3 DEF FenceRows, IInv, TypeOK
    <3> QED  BY <2>2, <2>4, <2>6, <3>1
  <2>9. ledger'[c] = ledger[c]
    <3>1. ledger[c] \in Seq(ResolutionRows) /\ ledger'[c] \in Seq(ResolutionRows)
      BY <1>1 DEF IInv, LedgerTypes
    <3>2. Active(c)' # 0
      BY <2>2 DEF Effective
    <3>3. Active(c)' = Len(ledger'[c])
      BY <3>2 DEF Active, InForce
    <3>4. Len(ledger[c]) \in Nat
      BY <3>1
    <3> QED  BY <2>2, <2>4, <2>6, <3>3, <3>4
  <2>10. Active(c)' = Active(c)
    BY <2>9 DEF Active
  <2>11. Fingerprint(c)' = Fingerprint(c)
    BY <2>2, <2>7
  <2>12. Effective(c)
    BY <2>2, <2>6, <2>9, <2>10, <2>11 DEF Effective
  <2> QED  BY <2>2, <2>7, <2>8, <2>10, <2>12 DEF Released
<1> QED  BY <1>1, Inductive, PTL DEF Spec, ReleaseNeverRevives
=============================================================================
