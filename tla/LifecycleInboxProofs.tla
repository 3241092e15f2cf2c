------------------------- MODULE LifecycleInboxProofs -------------------------
(***************************************************************************)
(* What the lifecycle inbox guarantees for any number of events, batches,    *)
(* retries and faults, in every configuration.                              *)
(*                                                                         *)
(* The argument: an event that was begun (decided inline, claimed, applied)  *)
(* was begun when every earlier row was settled, rows appear only at the     *)
(* head of the gateway's queue, and a settled row becomes unresolved only    *)
(* through a late failure mark, which `reopened' remembers.                  *)
(* Without a worker the gateway's own order settles the inbox: what was      *)
(* answered and is not applied waits for an event that failed (AInv).        *)
(***************************************************************************)
EXTENDS LifecycleInbox, TLAPS

-----------------------------------------------------------------------------
(* The inductive invariant *)

Settled(d) == row[d].status \in {"NONE", "APPLIED"} \/ d \in reopened

\* Every earlier row is settled.
Clear(e) == \A d \in Events : d < e => Settled(d)

Begun(e) == applied[e] > 0 \/ decision[e] = "inline" \/ row[e].status = "PROCESSING"

\* The request has a stored event and its row; it applies an event that it decided to
\* apply or found applied.
RequestHolds ==
  /\ req # "idle" => head \in stored
  /\ req \in {"route", "apply", "mark"} => row[head].status # "NONE"
  /\ req = "apply" => decision[head] = "inline" \/ applied[head] > 0

\* The batches hold rows that exist.
BatchesHold ==
  \A w \in Workers : pc[w] \in {"reset", "claimed", "failed"} =>
    work[w] \in Events /\ row[work[w]].status # "NONE"

\* Nothing is known of an event that the gateway has not sent.
Arrived == \A e \in Events : row[e].status # "NONE" \/ decision[e] # "none" => e <= head

\* How often an event was applied, and what its row says.
Once ==
  \A e \in Events :
    /\ e \in reopened \/ applied[e] = 0 \/ (applied[e] = 1 /\ row[e].status = "APPLIED")
    /\ applied[e] > 0 => row[e].status # "NONE"
    /\ row[e].status = "APPLIED" => applied[e] > 0

Ordered == \A e \in Events : Begun(e) => Clear(e)

IInv == TypeOK /\ RequestHolds /\ BatchesHold /\ Arrived /\ AnsweredEventInInbox /\ Once /\ Ordered

-----------------------------------------------------------------------------
(* Rows *)

\* What the transactions write is a row.
LEMMA WrittenRows ==
  ASSUME NEW r \in Rows
  PROVE  /\ \A due \in BOOLEAN : /\ Retried(r, due) \in Rows
                                 /\ Retried(r, due).status \in {"PENDING", "DEAD_LETTER"}
         /\ NewRow \in Rows /\ NewRow.status = "PENDING"
         /\ NoRow \in Rows /\ NoRow.status = "NONE"
<1> USE InboxConstants
<1>1. ASSUME NEW due \in BOOLEAN
      PROVE  /\ Retried(r, due) \in Rows
             /\ Retried(r, due).status \in {"PENDING", "DEAD_LETTER"}
  <2> DEFINE attempts == IF r.attempts < RetryLimit THEN r.attempts + 1 ELSE RetryLimit
  <2>1. r.attempts \in 0..RetryLimit
    BY DEF Rows
  <2>2. attempts \in 0..RetryLimit
    BY <2>1
  <2> HIDE DEF attempts
  <2>3. Retried(r, due) =
          [status |-> IF attempts >= RetryLimit THEN "DEAD_LETTER" ELSE "PENDING",
           attempts |-> attempts, owner |-> None, stale |-> FALSE, due |-> due]
    BY DEF Retried, attempts
  <2> QED  BY <2>2, <2>3 DEF Rows
<1>2. NewRow \in Rows /\ NewRow.status = "PENDING"
  BY DEF NewRow, Rows
<1>3. NoRow \in Rows /\ NoRow.status = "NONE"
  BY DEF NoRow, Rows
<1> QED  BY <1>1, <1>2, <1>3

\* A transaction that writes n into the row of e: it creates rows at the head only, marks
\* what it reopens, and claims and applies only what is clear.
Write(e, n) ==
  /\ row' = [row EXCEPT ![e] = n] /\ n.status # "NONE"
  /\ decision' = decision /\ head' \in Nat /\ head <= head'
  /\ row[e].status = "NONE" => e = head /\ n.status = "PENDING"
  /\ reopened' = reopened \/ reopened' = reopened \cup {e}
  /\ row[e].status = "APPLIED" /\ n.status # "APPLIED" => e \in reopened'
  /\ n.status = "PROCESSING" => row[e].status = "PROCESSING" \/ Clear(e)
  /\ \/ applied' = applied /\ (n.status = "APPLIED" => row[e].status = "APPLIED")
     \/ /\ applied' = [applied EXCEPT ![e] = IF @ < 2 THEN @ + 1 ELSE 2]
        /\ n.status = "APPLIED" /\ row[e].status \in {"PENDING", "PROCESSING"} /\ Clear(e)

\* It keeps what is said of rows.
LEMMA WriteKeeps ==
  ASSUME IInv, NEW e \in Events, NEW n \in Rows, Write(e, n)
  PROVE  /\ row' \in [Events -> Rows] /\ applied' \in [Events -> 0..2] /\ reopened' \subseteq Events
         /\ Arrived' /\ Once' /\ Ordered'
         /\ \A k \in Events : row[k].status # "NONE" => row'[k].status # "NONE"
<1> USE DEF Write
<1>1. /\ row \in [Events -> Rows] /\ applied \in [Events -> 0..2] /\ reopened \subseteq Events
      /\ head \in Nat /\ Events \subseteq Nat
  BY InboxConstants DEF IInv, TypeOK, Events
<1>2. row' \in [Events -> Rows] /\ reopened' \subseteq Events /\ reopened \subseteq reopened'
  BY <1>1
<1>3. row'[e] = n /\ \A k \in Events : k # e => row'[k] = row[k]
  BY <1>1
<1>4. applied' \in [Events -> 0..2]
  BY <1>1
<1>5. \A k \in Events : k # e => applied'[k] = applied[k]
  BY <1>1
<1>6. Arrived'
  BY <1>1, <1>3 DEF IInv, Arrived
<1>7. Once'
  <2> SUFFICES ASSUME NEW k \in Events
               PROVE  /\ k \in reopened' \/ applied'[k] = 0
                           \/ (applied'[k] = 1 /\ row'[k].status = "APPLIED")
                      /\ applied'[k] > 0 => row'[k].status # "NONE"
                      /\ row'[k].status = "APPLIED" => applied'[k] > 0
    BY DEF Once
  <2>0. /\ k \in reopened \/ applied[k] = 0 \/ (applied[k] = 1 /\ row[k].status = "APPLIED")
        /\ applied[k] > 0 => row[k].status # "NONE"
        /\ row[k].status = "APPLIED" => applied[k] > 0
    BY DEF IInv, Once
  <2>1. CASE k # e
    BY <1>2, <1>3, <1>5, <2>0, <2>1
  <2>2. CASE k = e /\ applied' = applied /\ (n.status = "APPLIED" => row[e].status = "APPLIED")
    BY <1>2, <1>3, <2>0, <2>2
  <2>3. CASE /\ k = e /\ applied' = [applied EXCEPT ![e] = IF @ < 2 THEN @ + 1 ELSE 2]
             /\ n.status = "APPLIED" /\ row[e].status \in {"PENDING", "PROCESSING"}
    <3>1. applied[e] \in 0..2 /\ applied'[e] = IF applied[e] < 2 THEN applied[e] + 1 ELSE 2
      BY <1>1, <2>3
    <3> QED  BY <1>2, <1>3, <2>0, <2>3, <3>1
  <2> QED  BY <2>1, <2>2, <2>3
<1>8. ASSUME NEW k \in Events, Begun(k)'
      PROVE  Clear(k)'
  <2>1. Clear(k)
    <3>1. Begun(k) => Clear(k)
      BY DEF IInv, Ordered
    <3>2. CASE k # e
      BY <1>3, <1>5, <1>8, <3>1, <3>2 DEF Begun
    <3>3. CASE k = e /\ applied' = applied
      BY <1>3, <1>8, <3>1, <3>3 DEF Begun
    <3>4. CASE k = e /\ applied' # applied
      BY <3>4
    <3> QED  BY <3>2, <3>3, <3>4
  <2>2. row[e].status = "NONE" => ~(e < k)
    <3>1. k = e \/ Begun(k)
      BY <1>3, <1>5, <1>8 DEF Begun
    <3>2. Begun(k) => k <= head
      BY DEF IInv, Begun, Arrived, Once
    <3> QED  BY <1>1, <3>1, <3>2
  <2>3. ASSUME NEW d \in Events, d < k
        PROVE  Settled(d)'
    <3>1. Settled(d)
      BY <2>1, <2>3 DEF Clear
    <3>2. CASE d # e
      BY <1>2, <1>3, <3>1, <3>2 DEF Settled
    <3>3. CASE d = e
      BY <1>2, <1>3, <2>2, <2>3, <3>1, <3>3 DEF Settled
    <3> QED  BY <3>2, <3>3
  <2> QED  BY <2>3 DEF Clear
<1>9. \A k \in Events : row[k].status # "NONE" => row'[k].status # "NONE"
  BY <1>3
<1> QED  BY <1>2, <1>4, <1>6, <1>7, <1>8, <1>9 DEF Ordered

\* A step that writes no row.
LEMMA NoWriteKeeps ==
  ASSUME IInv, UNCHANGED <<row, applied, reopened, decision>>, head' \in Nat, head <= head'
  PROVE  Arrived' /\ Once' /\ Ordered'
<1>1. head \in Nat /\ Events \subseteq Nat
  BY InboxConstants DEF IInv, TypeOK, Events
<1>2. Arrived'
  BY <1>1 DEF IInv, Arrived
<1>3. Once'
  BY DEF IInv, Once
<1>4. Ordered'
  BY DEF IInv, Ordered, Begun, Clear, Settled
<1> QED  BY <1>2, <1>3, <1>4

\* The batches are where they were, and rows stay.
LEMMA BatchesStay ==
  ASSUME IInv, UNCHANGED <<pc, work>>,
         \A k \in Events : row[k].status # "NONE" => row'[k].status # "NONE"
  PROVE  BatchesHold'
  BY DEF IInv, BatchesHold

-----------------------------------------------------------------------------
(* Requests *)

\* An answer: the gateway goes on, or sends the event again.
LEMMA RespondFacts ==
  ASSUME IInv, NEW status, Respond(status)
  PROVE  /\ req' = "idle" /\ head' \in Nat /\ head <= head' /\ faults' \in Nat
         /\ answered' = answered \/ answered' = answered \cup {head}
<1>1. head \in Nat /\ faults \in Nat
  BY DEF IInv, TypeOK
<1> QED  BY <1>1 DEF Respond, Disturbed, gateway

\* The request that ends with an answer has its event stored and in the inbox.
LEMMA AnswerKeeps ==
  ASSUME IInv, req \in {"route", "apply", "mark"}, answered' = answered \/ answered' = answered \cup {head},
         stored' = stored, \A k \in Events : row[k].status # "NONE" => row'[k].status # "NONE"
  PROVE  AnsweredEventInInbox' /\ answered' \subseteq Events
<1>1. head \in stored /\ row[head].status # "NONE" /\ stored \subseteq Events /\ answered \subseteq Events
  BY DEF IInv, RequestHolds, TypeOK
<1> QED  BY <1>1 DEF IInv, AnsweredEventInInbox

\* The event is stored.
LEMMA AppendKeeps ==
  ASSUME IInv, Append
  PROVE  IInv'
<1>1. head \in Events /\ head \in Nat
  BY InboxConstants DEF Append, IInv, TypeOK
<1>2. /\ stored' = stored \cup {head} /\ req' = "enqueue"
      /\ UNCHANGED <<settings, row, decision, applied, reopened, head, answered, pc, work, healthy, faults>>
  BY DEF Append, gateway, batches
<1>3. TypeOK'
  BY <1>1, <1>2 DEF IInv, TypeOK
<1>4. RequestHolds' /\ AnsweredEventInInbox'
  BY <1>2 DEF IInv, RequestHolds, AnsweredEventInInbox
<1>5. BatchesHold' /\ Arrived' /\ Once' /\ Ordered'
  BY <1>1, <1>2, NoWriteKeeps, BatchesStay
<1> QED  BY <1>3, <1>4, <1>5 DEF IInv

\* It gets a row, unless it has one (enqueue_live_sim_lifecycle_event).
LEMMA EnqueueKeeps ==
  ASSUME IInv, Enqueue
  PROVE  IInv'
<1>1. /\ head \in stored /\ head \in Events /\ head \in Nat /\ row[head] \in Rows
      /\ row \in [Events -> Rows]
  BY InboxConstants DEF Enqueue, IInv, TypeOK, RequestHolds
<1>2. /\ req' = "route"
      /\ UNCHANGED <<settings, stored, decision, applied, reopened, head, answered, pc, work, healthy, faults>>
  BY DEF Enqueue, gateway, batches
<1>3. NewRow \in Rows /\ NewRow.status = "PENDING"
  BY <1>1, WrittenRows
<1>4. /\ row' \in [Events -> Rows] /\ Arrived' /\ Once' /\ Ordered'
      /\ \A k \in Events : row[k].status # "NONE" => row'[k].status # "NONE"
  <2>1. CASE row[head].status = "NONE"
    <3>1. row' = [row EXCEPT ![head] = NewRow]
      BY <2>1 DEF Enqueue
    <3>2. Write(head, NewRow)
      BY <1>1, <1>2, <1>3, <2>1, <3>1 DEF Write
    <3> QED  BY <1>1, <1>3, <3>2, WriteKeeps
  <2>2. CASE row[head].status # "NONE"
    <3>1. row' = row
      BY <2>2 DEF Enqueue
    <3> QED  BY <1>1, <1>2, <3>1, NoWriteKeeps
  <2> QED  BY <2>1, <2>2
<1>5. row'[head].status # "NONE"
  BY <1>1, <1>3 DEF Enqueue
<1>6. TypeOK'
  BY <1>2, <1>4 DEF IInv, TypeOK
<1>7. RequestHolds' /\ AnsweredEventInInbox'
  BY <1>1, <1>2, <1>4, <1>5 DEF IInv, RequestHolds, AnsweredEventInInbox, TypeOK
<1>8. BatchesHold'
  BY <1>2, <1>4, BatchesStay
<1> QED  BY <1>4, <1>6, <1>7, <1>8 DEF IInv

\* It is routed; a decision to apply it inline is taken when no earlier row is unresolved.
LEMMA RouteKeeps ==
  ASSUME IInv, Route
  PROVE  IInv'
<1>1. /\ req = "route" /\ head \in stored /\ head \in Events /\ head \in Nat
      /\ row[head].status # "NONE" /\ Events \subseteq Nat /\ faults \in Nat
  BY InboxConstants DEF Route, IInv, TypeOK, RequestHolds, Events
<1>2. UNCHANGED <<settings, stored, row, applied, reopened, pc, work, healthy>>
  BY DEF Route, batches
<1>3. CASE row[head].status = "APPLIED"
  <2>1. req' = "apply" /\ UNCHANGED <<decision, head, answered, faults>>
    BY <1>3 DEF Route, gateway
  <2>2. applied[head] > 0
    BY <1>1, <1>3 DEF IInv, Once
  <2>3. TypeOK'
    BY <1>2, <2>1 DEF IInv, TypeOK
  <2>4. RequestHolds' /\ AnsweredEventInInbox'
    BY <1>1, <1>2, <2>1, <2>2 DEF IInv, RequestHolds, AnsweredEventInInbox
  <2>5. BatchesHold' /\ Arrived' /\ Once' /\ Ordered'
    BY <1>1, <1>2, <2>1, NoWriteKeeps, BatchesStay
  <2> QED  BY <2>3, <2>4, <2>5 DEF IInv
<1>4. CASE row[head].status # "APPLIED"
  <2>1. /\ decision' = [decision EXCEPT ![head] = Decide(head)]
        /\ decision \in [Events -> {"none", "defer", "blocked", "inline", "disabled"}]
    BY <1>4 DEF Route, IInv, TypeOK
  <2>2. /\ \/ req' = "apply" /\ Decide(head) = "inline" /\ UNCHANGED <<head, answered, faults>>
           \/ Respond(200)
    BY <1>4 DEF Route, gateway
  <2>3. /\ req' = "idle" \/ (req' = "apply" /\ Decide(head) = "inline" /\ head' = head)
        /\ head' \in Nat /\ head <= head' /\ faults' \in Nat
        /\ answered' = answered \/ answered' = answered \cup {head}
    <3>1. CASE Respond(200)
      BY <3>1, RespondFacts
    <3> QED  BY <1>1, <2>2, <3>1
  <2>4. Decide(head) \in {"none", "defer", "blocked", "inline", "disabled"}
    BY <1>1, <2>1 DEF Decide
  <2>5. decision' \in [Events -> {"none", "defer", "blocked", "inline", "disabled"}]
        /\ decision'[head] = Decide(head) /\ \A k \in Events : k # head => decision'[k] = decision[k]
    BY <1>1, <2>1, <2>4
  <2>6. AnsweredEventInInbox' /\ answered' \subseteq Events
    BY <1>1, <1>2, <2>3, AnswerKeeps
  <2>7. TypeOK'
    BY <1>2, <2>3, <2>5, <2>6 DEF IInv, TypeOK
  <2>8. RequestHolds'
    BY <1>1, <1>2, <2>3, <2>5 DEF RequestHolds
  <2>9. BatchesHold'
    BY <1>2, BatchesStay
  <2>10. Arrived'
    BY <1>1, <1>2, <2>3, <2>5 DEF IInv, Arrived
  <2>11. Once'
    BY <1>2 DEF IInv, Once
  <2>12. Decide(head) = "inline" => decision[head] = "inline" \/ Clear(head)
    <3>1. row \in [Events -> Rows]
      BY DEF IInv, TypeOK
    <3>2. Unresolved = {} \/ Earliest(head) => Clear(head)
      BY <1>1, <3>1 DEF Unresolved, Earliest, Clear, Settled, Rows
    <3> QED  BY <3>2 DEF Decide
  <2>13. Ordered'
    <3> SUFFICES ASSUME NEW k \in Events, Begun(k)'
                 PROVE  Clear(k)'
      BY DEF Ordered
    <3>1. Begun(k) \/ (k = head /\ Decide(head) = "inline")
      BY <1>2, <2>5 DEF Begun
    <3>2. Clear(k)
      BY <2>12, <3>1 DEF IInv, Ordered, Begun
    <3> QED  BY <1>2, <3>2 DEF Clear, Settled
  <2> QED  BY <2>6, <2>7, <2>8, <2>9, <2>10, <2>11, <2>13 DEF IInv
<1> QED  BY <1>3, <1>4

\* Fields of a row that are set together.
LEMMA FieldsSet ==
  ASSUME NEW r \in Rows
  PROVE  /\ \A s \in {"APPLIED", "PROCESSING"}, o \in Workers \cup {None} :
              /\ [r EXCEPT !.status = s, !.owner = o, !.stale = FALSE] \in Rows
              /\ [r EXCEPT !.status = s, !.owner = o, !.stale = FALSE].status = s
         /\ [r EXCEPT !.stale = TRUE] \in Rows /\ [r EXCEPT !.stale = TRUE].status = r.status
         /\ [r EXCEPT !.due = TRUE] \in Rows /\ [r EXCEPT !.due = TRUE].status = r.status
  BY DEF Rows

\* The handler's transaction on an event whose turn it is.
LEMMA ApplyWrites ==
  ASSUME IInv, NEW e \in Events, ApplyRow(e), row[e].status \in {"PENDING", "PROCESSING"}, Clear(e),
         UNCHANGED <<decision, reopened>>, head' \in Nat, head <= head'
  PROVE  \E n \in Rows : Write(e, n)
<1> DEFINE n == [row[e] EXCEPT !.status = "APPLIED", !.owner = None, !.stale = FALSE]
<1>1. row[e] \in Rows
  BY DEF IInv, TypeOK
<1>2. n \in Rows /\ n.status = "APPLIED"
  BY <1>1, FieldsSet
<1>3. row' = [row EXCEPT ![e] = n]
  BY DEF ApplyRow
<1>4. applied' = [applied EXCEPT ![e] = IF @ < 2 THEN @ + 1 ELSE 2]
  BY DEF ApplyRow
<1> HIDE DEF n
<1>5. Write(e, n)
  BY <1>2, <1>3, <1>4 DEF Write
<1> QED  BY <1>2, <1>5

\* A failure mark, on a row of any status.
LEMMA MarkWrites ==
  ASSUME IInv, NEW e \in Events, MarkFailure(e), row[e].status # "NONE",
         UNCHANGED <<decision, applied>>, head' \in Nat, head <= head'
  PROVE  \E n \in Rows : Write(e, n)
<1> DEFINE n == Retried(row[e], FALSE)
<1>1. row[e] \in Rows
  BY DEF IInv, TypeOK
<1>2. n \in Rows /\ n.status \in {"PENDING", "DEAD_LETTER"}
  BY <1>1, WrittenRows
<1>3. row' = [row EXCEPT ![e] = n]
  BY DEF MarkFailure
<1>4. /\ reopened' = reopened \/ reopened' = reopened \cup {e}
      /\ row[e].status = "APPLIED" => e \in reopened'
  BY DEF MarkFailure
<1> HIDE DEF n
<1>5. Write(e, n)
  BY <1>2, <1>3, <1>4 DEF Write
<1> QED  BY <1>2, <1>5

\* A request that ends with a write and an answer.
LEMMA AnsweringWriteKeeps ==
  ASSUME IInv, req \in {"apply", "mark"}, NEW n \in Rows, Write(head, n), NEW status, Respond(status),
         UNCHANGED <<settings, stored, pc, work, healthy>>
  PROVE  IInv'
<1>1. head \in Events
  BY DEF IInv, RequestHolds, TypeOK
<1>2. /\ row' \in [Events -> Rows] /\ applied' \in [Events -> 0..2] /\ reopened' \subseteq Events
      /\ Arrived' /\ Once' /\ Ordered'
      /\ \A k \in Events : row[k].status # "NONE" => row'[k].status # "NONE"
  BY <1>1, WriteKeeps
<1>3. /\ req' = "idle" /\ head' \in Nat /\ faults' \in Nat
      /\ answered' = answered \/ answered' = answered \cup {head}
  BY RespondFacts
<1>4. AnsweredEventInInbox' /\ answered' \subseteq Events
  BY <1>2, <1>3, AnswerKeeps
<1>5. decision' = decision
  BY DEF Write
<1>6. TypeOK'
  BY <1>2, <1>3, <1>4, <1>5 DEF IInv, TypeOK
<1>7. RequestHolds'
  BY <1>3 DEF RequestHolds
<1>8. BatchesHold'
  BY <1>2, BatchesStay
<1> QED  BY <1>2, <1>4, <1>6, <1>7, <1>8 DEF IInv

\* The request applies the event, or marks its failure.
LEMMA InlineKeeps ==
  ASSUME IInv, InlineApply \/ InlineMark
  PROVE  IInv'
<1>1. head \in Events /\ row[head].status # "NONE"
  BY DEF InlineApply, InlineMark, IInv, RequestHolds, TypeOK
<1>2. CASE InlineApply
  <2>1. Clear(head)
    BY <1>1, <1>2 DEF InlineApply, IInv, RequestHolds, Ordered, Begun
  <2>2. /\ req = "apply" /\ row[head].status = "PENDING" /\ ApplyRow(head) /\ Respond(200)
        /\ UNCHANGED <<settings, stored, decision, reopened, pc, work, healthy>>
    BY <1>2 DEF InlineApply, batches
  <2>3. head' \in Nat /\ head <= head'
    BY <2>2, RespondFacts
  <2>4. \E n \in Rows : Write(head, n)
    BY <1>1, <2>1, <2>2, <2>3, ApplyWrites
  <2> QED  BY <2>2, <2>4, AnsweringWriteKeeps
<1>3. CASE InlineMark
  <2>1. PICK status : Respond(status)
    BY <1>3 DEF InlineMark
  <2>2. /\ req = "mark" /\ MarkFailure(head)
        /\ UNCHANGED <<settings, stored, decision, applied, pc, work, healthy>>
    BY <1>3 DEF InlineMark, batches
  <2>3. head' \in Nat /\ head <= head'
    BY <2>1, RespondFacts
  <2>4. \E n \in Rows : Write(head, n)
    BY <1>1, <2>2, <2>3, MarkWrites
  <2> QED  BY <2>1, <2>2, <2>4, AnsweringWriteKeeps
<1> QED  BY <1>2, <1>3

\* Requests that end, and the gateway's restart, without a write.
LEMMA QuietRequestKeeps ==
  ASSUME IInv, InlineError \/ InlineSkip \/ RequestFails \/ GatewayRestart
  PROVE  IInv'
<1>1. head \in Nat /\ faults \in Nat
  BY DEF IInv, TypeOK
<1>2. UNCHANGED <<settings, stored, row, decision, applied, reopened, pc, work, healthy>>
  BY DEF InlineError, InlineSkip, RequestFails, GatewayRestart, inbox, batches
<1>3. CASE InlineSkip
  <2>1. PICK status : Respond(status)
    BY <1>3 DEF InlineSkip
  <2>2. /\ req' = "idle" /\ head' \in Nat /\ head <= head' /\ faults' \in Nat
        /\ answered' = answered \/ answered' = answered \cup {head}
    BY <2>1, RespondFacts
  <2>3. AnsweredEventInInbox' /\ answered' \subseteq Events
    BY <1>2, <1>3, <2>2, AnswerKeeps DEF InlineSkip
  <2>4. TypeOK'
    BY <1>2, <2>2, <2>3 DEF IInv, TypeOK
  <2>5. RequestHolds'
    BY <2>2 DEF RequestHolds
  <2>6. BatchesHold' /\ Arrived' /\ Once' /\ Ordered'
    BY <1>2, <2>2, NoWriteKeeps, BatchesStay
  <2> QED  BY <2>3, <2>4, <2>5, <2>6 DEF IInv
<1>4. CASE InlineError \/ RequestFails \/ GatewayRestart
  <2>1. /\ answered' = answered /\ faults' \in Nat
        /\ \/ req = "apply" /\ req' = "mark" /\ head' = head
           \/ req' = "idle" /\ head' \in Nat /\ head <= head'
    BY <1>1, <1>4 DEF InlineError, RequestFails, GatewayRestart, Disturbed, gateway
  <2>2. AnsweredEventInInbox'
    BY <1>2, <2>1 DEF IInv, AnsweredEventInInbox
  <2>3. TypeOK'
    BY <1>1, <1>2, <2>1 DEF IInv, TypeOK
  <2>4. RequestHolds'
    BY <1>2, <2>1 DEF IInv, RequestHolds
  <2>5. BatchesHold' /\ Arrived' /\ Once' /\ Ordered'
    BY <1>1, <1>2, <2>1, NoWriteKeeps, BatchesStay
  <2> QED  BY <2>2, <2>3, <2>4, <2>5 DEF IInv
<1> QED  BY <1>3, <1>4

-----------------------------------------------------------------------------
(* Batches and time *)

Places == {"idle", "reset", "loop", "claimed", "failed", "errors"}

\* A batch goes to another place, with the row it holds there.
LEMMA GotoKeeps ==
  ASSUME IInv, NEW w \in Workers, NEW place \in Places, NEW e \in Events \cup {0}, Goto(w, place, e),
         place \in {"reset", "claimed", "failed"} => e \in Events /\ row[e].status # "NONE",
         \A k \in Events : row[k].status # "NONE" => row'[k].status # "NONE"
  PROVE  /\ pc' \in [Workers -> Places] /\ work' \in [Workers -> Events \cup {0}]
         /\ BatchesHold'
<1>1. pc \in [Workers -> Places] /\ work \in [Workers -> Events \cup {0}]
  BY DEF IInv, TypeOK, Places
<1>2. pc' = [pc EXCEPT ![w] = place] /\ work' = [work EXCEPT ![w] = e]
  BY DEF Goto
<1>3. pc' \in [Workers -> Places] /\ work' \in [Workers -> Events \cup {0}]
  BY <1>1, <1>2
<1>4. BatchesHold'
  BY <1>1, <1>2 DEF IInv, BatchesHold
<1> QED  BY <1>3, <1>4

\* A write that is not the request's.
LEMMA BatchWriteKeeps ==
  ASSUME IInv, NEW e \in Events, NEW n \in Rows, Write(e, n),
         UNCHANGED <<settings, stored, head, answered, req, healthy>>, faults' \in Nat,
         pc' \in [Workers -> Places], work' \in [Workers -> Events \cup {0}], BatchesHold'
  PROVE  IInv'
<1>1. /\ row' \in [Events -> Rows] /\ applied' \in [Events -> 0..2] /\ reopened' \subseteq Events
      /\ Arrived' /\ Once' /\ Ordered'
      /\ \A k \in Events : row[k].status # "NONE" => row'[k].status # "NONE"
  BY WriteKeeps
<1>2. decision' = decision
  BY DEF Write
<1>3. TypeOK'
  BY <1>1, <1>2 DEF IInv, TypeOK, Places
<1>4. AnsweredEventInInbox'
  BY <1>1 DEF IInv, AnsweredEventInInbox, TypeOK
<1>5. RequestHolds'
  <2>1. applied \in [Events -> 0..2]
    BY DEF IInv, TypeOK
  <2>2. \A k \in Events : applied[k] > 0 => applied'[k] > 0
    BY <2>1 DEF Write
  <2>3. req # "idle" => head \in Events
    BY DEF IInv, RequestHolds, TypeOK
  <2> QED  BY <1>1, <1>2, <2>2, <2>3 DEF IInv, RequestHolds
<1> QED  BY <1>1, <1>3, <1>4, <1>5 DEF IInv

\* Steps of a batch that write no row.
LEMMA QuietBatchKeeps ==
  ASSUME IInv, NEW w \in Workers,
         StartBatch(w) \/ WorkerSkip(w) \/ WorkerError(w) \/ EndBatch(w) \/ BatchDies(w)
  PROVE  IInv'
<1>1. /\ UNCHANGED <<settings, stored, row, decision, applied, reopened, head, answered, req>>
      /\ head \in Nat
  BY DEF StartBatch, WorkerSkip, WorkerError, EndBatch, BatchDies, inbox, gateway, IInv, TypeOK
<1>2. healthy' \in BOOLEAN /\ faults' \in Nat
  <2>1. healthy \in BOOLEAN /\ faults \in Nat
    BY DEF IInv, TypeOK
  <2>2. CASE EndBatch(w)
    <3>1. faults' = faults
      BY <2>2 DEF EndBatch
    <3>2. healthy' = (pc[w] = "loop" /\ \A e \in Events : Earliest(e) => row[e].status # "DEAD_LETTER")
      BY <2>2, Zenon DEF EndBatch
    <3> QED  BY <2>1, <3>1, <3>2
  <2>3. CASE StartBatch(w) \/ WorkerSkip(w)
    BY <2>1, <2>3 DEF StartBatch, WorkerSkip
  <2>4. CASE WorkerError(w) \/ BatchDies(w)
    BY <2>1, <2>4 DEF WorkerError, BatchDies, Disturbed
  <2> QED  BY <2>2, <2>3, <2>4
<1>3. PICK place \in Places, e \in Events \cup {0} :
        /\ Goto(w, place, e)
        /\ place \in {"reset", "claimed", "failed"} => e \in Events /\ row[e].status # "NONE"
  <2>1. CASE StartBatch(w)
    BY <2>1 DEF StartBatch, Places
  <2>2. CASE WorkerError(w)
    BY <2>2 DEF WorkerError, Places, IInv, BatchesHold
  <2>3. CASE WorkerSkip(w)
    BY <2>3 DEF WorkerSkip, Places
  <2>4. CASE EndBatch(w) \/ BatchDies(w)
    BY <2>4 DEF EndBatch, BatchDies, Places
  <2> QED  BY <2>1, <2>2, <2>3, <2>4
<1>4. /\ pc' \in [Workers -> Places] /\ work' \in [Workers -> Events \cup {0}] /\ BatchesHold'
  BY <1>1, <1>3, GotoKeeps
<1>5. TypeOK'
  BY <1>1, <1>2, <1>4 DEF IInv, TypeOK, Places
<1>6. RequestHolds' /\ AnsweredEventInInbox'
  BY <1>1 DEF IInv, RequestHolds, AnsweredEventInInbox
<1>7. Arrived' /\ Once' /\ Ordered'
  BY <1>1, NoWriteKeeps
<1> QED  BY <1>4, <1>5, <1>6, <1>7 DEF IInv

\* Steps of a batch that write one.
LEMMA WritingBatchKeeps ==
  ASSUME IInv, NEW w \in Workers, ResetStale(w) \/ Claim(w) \/ WorkerApply(w) \/ WorkerMark(w)
  PROVE  IInv'
<1>1. /\ row \in [Events -> Rows] /\ head \in Nat /\ faults \in Nat
      /\ pc[w] \in {"reset", "claimed", "failed"} => work[w] \in Events /\ row[work[w]].status # "NONE"
  BY DEF IInv, TypeOK, BatchesHold
<1>2. /\ UNCHANGED <<settings, stored, decision, head, answered, req, healthy, faults>>
      /\ head' \in Nat /\ head <= head' /\ faults' \in Nat
  <2>1. UNCHANGED <<settings, stored, decision, head, answered, req, healthy, faults>>
    BY DEF ResetStale, Claim, WorkerApply, WorkerMark, gateway
  <2> QED  BY <1>1, <2>1
<1>3. PICK e \in Events, n \in Rows, place \in Places, held \in Events \cup {0} :
        /\ Write(e, n) /\ Goto(w, place, held)
        /\ place \in {"reset", "claimed", "failed"} => held \in Events /\ row[held].status # "NONE"
  <2>1. CASE ResetStale(w)
    <3> DEFINE e == work[w]
               n == IF row[e].status = "PROCESSING" THEN Retried(row[e], TRUE) ELSE row[e]
    <3>1. e \in Events /\ row[e] \in Rows /\ row[e].status # "NONE"
      BY <1>1, <2>1 DEF ResetStale
    <3>2. Retried(row[e], TRUE) \in Rows /\ Retried(row[e], TRUE).status \in {"PENDING", "DEAD_LETTER"}
      BY <3>1, WrittenRows
    <3>3. /\ n \in Rows /\ n.status # "NONE"
          /\ row[e].status = "PROCESSING" \/ n.status = row[e].status
          /\ n.status = "PROCESSING" => row[e].status = "PROCESSING"
          /\ n.status = "APPLIED" => row[e].status = "APPLIED"
      BY <3>1, <3>2
    <3>4. row' = [row EXCEPT ![e] = n] /\ UNCHANGED <<applied, reopened>> /\ Goto(w, "loop", 0)
      BY <1>1, <2>1 DEF ResetStale
    <3> HIDE DEF n, e
    <3>5. Write(e, n)
      BY <1>2, <3>1, <3>3, <3>4 DEF Write
    <3> QED  BY <3>1, <3>3, <3>4, <3>5 DEF Places
  <2>2. CASE Claim(w)
    <3>1. PICK e \in Claimable :
            /\ row' = [row EXCEPT ![e] = [@ EXCEPT !.status = "PROCESSING", !.owner = w, !.stale = FALSE]]
            /\ Goto(w, "claimed", e)
      BY <2>2 DEF Claim
    <3> DEFINE n == [row[e] EXCEPT !.status = "PROCESSING", !.owner = w, !.stale = FALSE]
    <3>2. e \in Events /\ row[e] \in Rows /\ row[e].status = "PENDING" /\ Earliest(e)
      BY <1>1 DEF Claimable
    <3>3. n \in Rows /\ n.status = "PROCESSING"
      BY <3>2, FieldsSet
    <3>4. row' = [row EXCEPT ![e] = n] /\ UNCHANGED <<applied, reopened>>
      BY <2>2, <3>1 DEF Claim
    <3>5. Clear(e)
      BY <1>1, <3>2, InboxConstants DEF Earliest, Unresolved, Clear, Settled, Rows, Events
    <3> HIDE DEF n
    <3>6. Write(e, n)
      BY <1>2, <3>2, <3>3, <3>4, <3>5 DEF Write
    <3> QED  BY <3>1, <3>2, <3>3, <3>6 DEF Places
  <2>3. CASE WorkerApply(w)
    <3>1. /\ work[w] \in Events /\ row[work[w]].status = "PROCESSING" /\ ApplyRow(work[w])
          /\ UNCHANGED reopened /\ Goto(w, "loop", 0)
      BY <1>1, <2>3 DEF WorkerApply, Owns
    <3>2. Clear(work[w])
      BY <3>1 DEF IInv, Ordered, Begun
    <3>3. \E n \in Rows : Write(work[w], n)
      BY <1>2, <3>1, <3>2, ApplyWrites
    <3> QED  BY <3>1, <3>3 DEF Places
  <2>4. CASE WorkerMark(w)
    <3>1. /\ work[w] \in Events /\ row[work[w]].status # "NONE" /\ MarkFailure(work[w])
          /\ UNCHANGED applied /\ Goto(w, "errors", 0)
      BY <1>1, <2>4 DEF WorkerMark
    <3>2. \E n \in Rows : Write(work[w], n)
      BY <1>2, <3>1, MarkWrites
    <3> QED  BY <3>1, <3>2 DEF Places
  <2> QED  BY <2>1, <2>2, <2>3, <2>4
<1>4. \A k \in Events : row[k].status # "NONE" => row'[k].status # "NONE"
  BY <1>3, WriteKeeps
<1>5. pc' \in [Workers -> Places] /\ work' \in [Workers -> Events \cup {0}] /\ BatchesHold'
  BY <1>3, <1>4, GotoKeeps
<1> QED  BY <1>2, <1>3, <1>5, BatchWriteKeeps

\* Claims age, retries fall due, the operator resets a dead letter, health lapses.
LEMMA TimeKeeps ==
  ASSUME IInv, HealthAges \/ \E e \in Events : ClaimAges(e) \/ RetryDue(e) \/ ResetDeadLetter(e)
  PROVE  IInv'
<1>1. head \in Nat /\ faults \in Nat /\ row \in [Events -> Rows]
  BY DEF IInv, TypeOK
<1>2. CASE HealthAges
  <2>1. /\ UNCHANGED <<settings, stored, row, decision, applied, reopened, head, answered, req, pc,
                       work, faults>>
        /\ healthy' = FALSE
    BY <1>2 DEF HealthAges, inbox, gateway
  <2>2. TypeOK'
    BY <2>1 DEF IInv, TypeOK
  <2>3. RequestHolds' /\ AnsweredEventInInbox' /\ BatchesHold'
    BY <2>1 DEF IInv, RequestHolds, AnsweredEventInInbox, BatchesHold
  <2> QED  BY <1>1, <2>1, <2>2, <2>3, NoWriteKeeps DEF IInv
<1>3. ASSUME NEW e \in Events, ClaimAges(e) \/ RetryDue(e) \/ ResetDeadLetter(e)
      PROVE  IInv'
  <2>1. /\ UNCHANGED <<settings, stored, decision, applied, reopened, head, answered, req, pc, work, healthy>>
        /\ faults' \in Nat
    BY <1>1, <1>3 DEF ClaimAges, RetryDue, ResetDeadLetter, gateway, batches, Disturbed
  <2>2. row[e] \in Rows
    BY <1>1
  <2>3. PICK n \in Rows :
          /\ row' = [row EXCEPT ![e] = n] /\ n.status # "NONE" /\ row[e].status # "NONE"
          /\ n.status = row[e].status \/ (n.status = "PENDING" /\ row[e].status = "DEAD_LETTER")
    <3>1. CASE ClaimAges(e)
      <4> DEFINE n == [row[e] EXCEPT !.stale = TRUE]
      <4>1. row' = [row EXCEPT ![e] = n] /\ row[e].status = "PROCESSING"
        BY <3>1 DEF ClaimAges
      <4>2. n \in Rows /\ n.status = row[e].status
        BY <2>2, FieldsSet
      <4> QED  BY <4>1, <4>2
    <3>2. CASE RetryDue(e)
      <4> DEFINE n == [row[e] EXCEPT !.due = TRUE]
      <4>1. row' = [row EXCEPT ![e] = n] /\ row[e].status # "NONE"
        BY <3>2 DEF RetryDue
      <4>2. n \in Rows /\ n.status = row[e].status
        BY <2>2, FieldsSet
      <4> QED  BY <4>1, <4>2
    <3>3. CASE ResetDeadLetter(e)
      BY <2>2, <3>3, WrittenRows DEF ResetDeadLetter
    <3> QED  BY <1>3, <3>1, <3>2, <3>3
  <2>4. Write(e, n)
    BY <1>1, <2>1, <2>3 DEF Write
  <2>5. \A k \in Events : row[k].status # "NONE" => row'[k].status # "NONE"
    BY <2>4, WriteKeeps
  <2>6. BatchesHold' /\ pc' \in [Workers -> Places] /\ work' \in [Workers -> Events \cup {0}]
    BY <2>1, <2>5, BatchesStay DEF IInv, TypeOK, Places
  <2> QED  BY <2>1, <2>4, <2>6, BatchWriteKeeps
<1> QED  BY <1>2, <1>3

-----------------------------------------------------------------------------
(* The theorems *)

\* The inbox is empty at first.
LEMMA InitKeeps ==
  ASSUME Init
  PROVE  IInv
<1>1. NoRow \in Rows /\ NoRow.status = "NONE"
  BY InboxConstants DEF NoRow, Rows
<1>2. row = [e \in Events |-> NoRow]
  BY DEF Init
<1>3. \A e \in Events : row[e].status = "NONE"
  BY <1>1, <1>2
<1>4. row \in [Events -> Rows]
  BY <1>1, <1>2
<1>5. TypeOK
  <2>1. settings \in Settings /\ stored \subseteq Events /\ answered \subseteq Events /\ reopened \subseteq Events
    BY DEF Init
  <2>2. decision \in [Events -> {"none", "defer", "blocked", "inline", "disabled"}]
    BY DEF Init
  <2>3. /\ pc \in [Workers -> {"idle", "reset", "loop", "claimed", "failed", "errors"}]
        /\ work \in [Workers -> Events \cup {0}]
    BY DEF Init
  <2>4. head \in Nat /\ faults \in Nat /\ applied \in [Events -> 0..2]
    BY DEF Init
  <2>5. req \in {"idle", "enqueue", "route", "apply", "mark"} /\ healthy \in BOOLEAN
    BY DEF Init
  <2> QED  BY <1>4, <2>1, <2>2, <2>3, <2>4, <2>5 DEF TypeOK
<1>6. RequestHolds /\ BatchesHold /\ AnsweredEventInInbox
  BY DEF Init, RequestHolds, BatchesHold, AnsweredEventInInbox
<1>7. Arrived /\ Once /\ Ordered
  BY <1>3 DEF Init, Arrived, Once, Ordered, Begun
<1> QED  BY <1>5, <1>6, <1>7 DEF IInv

\* Every step keeps the invariant.
LEMMA StepKeeps ==
  ASSUME IInv, [Next]_vars
  PROVE  IInv'
<1>1. CASE UNCHANGED vars
  <2>1. UNCHANGED <<settings, stored, row, decision, head, answered, req, pc, work, healthy, applied,
                    reopened, faults>>
    BY <1>1 DEF vars
  <2>2. TypeOK' /\ RequestHolds' /\ BatchesHold' /\ AnsweredEventInInbox'
    BY <2>1 DEF IInv, TypeOK, RequestHolds, BatchesHold, AnsweredEventInInbox
  <2>3. head' \in Nat /\ head <= head'
    BY <2>1 DEF IInv, TypeOK
  <2> QED  BY <2>1, <2>2, <2>3, NoWriteKeeps DEF IInv
<1>2. CASE Append \/ Enqueue \/ Route
  BY <1>2, AppendKeeps, EnqueueKeeps, RouteKeeps
<1>3. CASE InlineApply \/ InlineMark \/ InlineError \/ InlineSkip \/ RequestFails \/ GatewayRestart
  BY <1>3, InlineKeeps, QuietRequestKeeps
<1>4. ASSUME NEW w \in Workers, BatchStep(w) \/ WorkerError(w) \/ BatchDies(w)
      PROVE  IInv'
  BY <1>4, QuietBatchKeeps, WritingBatchKeeps DEF BatchStep
<1>5. CASE HealthAges \/ \E e \in Events : ClaimAges(e) \/ RetryDue(e) \/ ResetDeadLetter(e)
  BY <1>5, TimeKeeps
<1> QED  BY <1>1, <1>2, <1>3, <1>4, <1>5 DEF Next

\* The invariant of every behaviour.
LEMMA Inductive == Spec => []IInv
<1>1. Init => IInv
  BY InitKeeps
<1>2. IInv /\ [Next]_vars => IInv'
  BY StepKeeps
<1> QED  BY <1>1, <1>2, PTL DEF Spec

\* Rows, decisions, batches and counters keep their types.
THEOREM InboxTypeCorrect == Spec => []TypeOK
<1>1. IInv => TypeOK
  BY DEF IInv
<1> QED  BY <1>1, Inductive, PTL

\* An event that the gateway has forgotten is stored and has a row, with every setting
\* of the worker, the cutover and the inline consumer.
THEOREM AnsweredEventsAreInInbox == Spec => []AnsweredEventInInbox
<1>1. IInv => AnsweredEventInInbox
  BY DEF IInv
<1> QED  BY <1>1, Inductive, PTL

\* The request and any number of batches apply an event once, unless a late failure mark
\* has set its APPLIED row back.
THEOREM EventsAreAppliedOnce == Spec => []AppliedOnce
<1>1. IInv => AppliedOnce
  BY DEF IInv, Once, AppliedOnce
<1> QED  BY <1>1, Inductive, PTL

\* Events are applied in the order of their rowids, however requests, batches, retries and
\* restarts interleave: an event is begun only when what precedes it is settled, and the
\* request or the batch that applies it has begun it.
THEOREM EventsAreAppliedInOrder == Spec => RowidOrder
<1>1. ASSUME IInv, [Next]_vars
      PROVE  \A e \in Events : applied'[e] # applied[e] => \A d \in Unresolved : d < e => d \in reopened
  <2> SUFFICES ASSUME NEW e \in Events, applied'[e] # applied[e]
               PROVE  Clear(e)
    BY DEF Clear, Settled, Unresolved
  <2>1. applied \in [Events -> 0..2] /\ stored \subseteq Events
    BY <1>1 DEF IInv, TypeOK
  <2>2. InlineApply \/ \E w \in Workers : WorkerApply(w)
    <3>1. ~(UNCHANGED vars) /\ ~Append /\ ~Enqueue /\ ~Route /\ ~InlineError /\ ~InlineSkip
          /\ ~InlineMark /\ ~RequestFails /\ ~GatewayRestart /\ ~HealthAges
      BY DEF vars, Append, Enqueue, Route, InlineError, InlineSkip, InlineMark, RequestFails,
             GatewayRestart, HealthAges, inbox
    <3>2. \A w \in Workers : /\ ~StartBatch(w) /\ ~ResetStale(w) /\ ~Claim(w) /\ ~WorkerSkip(w)
                             /\ ~WorkerMark(w) /\ ~EndBatch(w) /\ ~WorkerError(w) /\ ~BatchDies(w)
      BY DEF StartBatch, ResetStale, Claim, WorkerSkip, WorkerMark, EndBatch, WorkerError, BatchDies, inbox
    <3>3. \A k \in Events : ~ClaimAges(k) /\ ~RetryDue(k) /\ ~ResetDeadLetter(k)
      BY DEF ClaimAges, RetryDue, ResetDeadLetter
    <3> QED  BY <1>1, <3>1, <3>2, <3>3 DEF Next, BatchStep
  <2>3. CASE InlineApply
    <3>1. req = "apply" /\ ApplyRow(head)
      BY <2>3 DEF InlineApply
    <3>2. e = head
      BY <2>1, <3>1 DEF ApplyRow
    <3> QED  BY <1>1, <3>1, <3>2 DEF IInv, RequestHolds, Ordered, Begun
  <2>4. ASSUME NEW w \in Workers, WorkerApply(w)
        PROVE  Clear(e)
    <3>1. Owns(w) /\ ApplyRow(work[w])
      BY <2>4 DEF WorkerApply
    <3>2. e = work[w]
      BY <2>1, <3>1 DEF ApplyRow
    <3> QED  BY <1>1, <3>1, <3>2 DEF IInv, Ordered, Begun, Owns
  <2> QED  BY <2>2, <2>3, <2>4
<1> QED  BY <1>1, Inductive, PTL DEF Spec, RowidOrder

-----------------------------------------------------------------------------
(* The default configuration: the request applies events and no worker runs *)

InlineOnly == settings.inline /\ ~settings.worker

\* An event that keeps later ones waiting for a worker.
Held(d) == d \notin answered \/ row[d].attempts > 0

NoBatch ==
  /\ \A w \in Workers : pc[w] = "idle"
  /\ \A e \in Events : row[e].status # "PROCESSING"

AnsweredIsPast == \A e \in answered : e < head

\* What is applied, or fails for good, was decided inline; what is blocked waits for an
\* event that is held.
InlineDecisions ==
  /\ req \in {"apply", "mark"} => decision[head] = "inline"
  /\ \A e \in Events : applied[e] > 0 => decision[e] = "inline"
  /\ \A e \in Events : row[e].status = "DEAD_LETTER" => decision[e] = "inline" /\ e \notin answered
  /\ \A e \in Events : decision[e] \in {"none", "inline", "blocked"}
  /\ \A e \in Events : decision[e] = "blocked" => \E d \in Events : d < e /\ Held(d)

AnsweredIsSettled ==
  \A e \in answered : row[e].status = "APPLIED" \/ \E d \in Events : d <= e /\ Held(d)

AInv == InlineOnly => NoBatch /\ AnsweredIsPast /\ InlineDecisions /\ AnsweredIsSettled

\* What is left to show of a step: it answers and writes at the head only, except for the
\* reset of a dead letter, and answers what is applied, failed or blocked.
LEMMA HeadStepKeeps ==
  ASSUME IInv, AInv, InlineOnly, settings' = settings, pc' = pc, stored' \subseteq Events,
         \/ answered' = answered /\ head' \in {head, head + 1}
         \/ answered' = answered \cup {head} /\ head' = head + 1 /\ head \in Events,
         \A e \in Events : e # head =>
           \/ row'[e].status = row[e].status /\ row'[e].attempts = row[e].attempts
           \/ row[e].status = "DEAD_LETTER" /\ row'[e].status = "PENDING",
         head \in Events => row'[head].status # "PROCESSING",
         head \in Events /\ row'[head].status = "DEAD_LETTER" => decision[head] = "inline" /\ head \notin answered',
         \A e \in Events : decision'[e] # decision[e] =>
           /\ e = head /\ decision[e] = "none"
           /\ decision'[e] = "inline" \/ (decision'[e] = "blocked" /\ \E d \in Events : d < e /\ Held(d)),
         \A e \in Events : applied'[e] > 0 => applied[e] > 0 \/ (e = head /\ decision[e] = "inline"),
         req' \in {"apply", "mark"} => head' = head /\ decision'[head] = "inline",
         head \in answered' => \/ row'[head].status = "APPLIED" \/ row'[head].attempts > 0
                               \/ \E d \in Events : d < head /\ Held(d)
  PROVE  AInv'
<1>1. head \in Nat /\ Events \subseteq Nat /\ answered \subseteq Events
  BY InboxConstants DEF IInv, TypeOK, Events
<1>2. NoBatch /\ AnsweredIsPast /\ InlineDecisions /\ AnsweredIsSettled
  BY DEF AInv
<1>3. NoBatch'
  <2>1. \A e \in Events : row'[e].status # "PROCESSING"
    BY <1>2 DEF NoBatch
  <2> QED  BY <1>2, <2>1 DEF NoBatch
<1>4. AnsweredIsPast'
  <2>1. \A e \in answered : e \in Nat /\ e < head
    BY <1>1, <1>2 DEF AnsweredIsPast
  <2>2. head' \in Nat /\ head <= head'
    BY <1>1
  <2> SUFFICES ASSUME NEW e \in answered'
               PROVE  e < head'
    BY DEF AnsweredIsPast
  <2>3. CASE e \in answered
    BY <1>1, <2>1, <2>2, <2>3
  <2>4. CASE e = head /\ head' = head + 1
    BY <1>1, <2>4
  <2> QED  BY <2>3, <2>4
<1>5. \A d \in answered : d \in Events /\ d # head /\ row'[d].status = row[d].status /\ row'[d].attempts = row[d].attempts
  <2> SUFFICES ASSUME NEW d \in answered
               PROVE  d \in Events /\ d # head /\ row'[d].status = row[d].status /\ row'[d].attempts = row[d].attempts
    OBVIOUS
  <2>1. d \in Events /\ d # head
    BY <1>1, <1>2 DEF AnsweredIsPast
  <2>2. row[d].status # "DEAD_LETTER"
    BY <1>2, <2>1 DEF InlineDecisions
  <2> QED  BY <2>1, <2>2
<1>6. \A d \in Events : d < head /\ Held(d) => Held(d)'
  <2> SUFFICES ASSUME NEW d \in Events, d < head, Held(d)
               PROVE  Held(d)'
    OBVIOUS
  <2>1. d # head
    BY <1>1
  <2>2. CASE d \notin answered
    BY <2>1, <2>2 DEF Held
  <2>3. CASE d \in answered
    BY <1>5, <2>3 DEF Held
  <2> QED  BY <2>2, <2>3
<1>7. InlineDecisions'
  <2>1. \A e \in Events : applied'[e] > 0 => decision'[e] = "inline"
    BY <1>2 DEF InlineDecisions
  <2>2. ASSUME NEW e \in Events, row'[e].status = "DEAD_LETTER"
        PROVE  decision'[e] = "inline" /\ e \notin answered'
    <3>1. CASE e = head
      BY <2>2, <3>1
    <3>2. CASE e # head
      BY <1>2, <2>2, <3>2 DEF InlineDecisions
    <3> QED  BY <3>1, <3>2
  <2>3. \A e \in Events : decision'[e] \in {"none", "inline", "blocked"}
    BY <1>2 DEF InlineDecisions
  <2>4. ASSUME NEW e \in Events, decision'[e] = "blocked"
        PROVE  \E d \in Events : d < e /\ Held(d)'
    <3>1. \E d \in Events : d < e /\ Held(d)
      BY <1>2, <2>4 DEF InlineDecisions
    <3>2. e <= head
      <4>1. CASE decision'[e] = decision[e]
        BY <2>4, <4>1 DEF IInv, Arrived
      <4>2. CASE decision'[e] # decision[e]
        BY <1>1, <4>2
      <4> QED  BY <4>1, <4>2
    <3> QED  BY <1>1, <1>6, <3>1, <3>2
  <2>5. req' \in {"apply", "mark"} => decision'[head'] = "inline"
    OBVIOUS
  <2> QED  BY <2>1, <2>2, <2>3, <2>4, <2>5 DEF InlineDecisions
<1>8. AnsweredIsSettled'
  <2> SUFFICES ASSUME NEW e \in answered', row'[e].status # "APPLIED"
               PROVE  \E d \in Events : d <= e /\ Held(d)'
    BY DEF AnsweredIsSettled
  <2>1. CASE e \in answered
    <3>1. PICK d \in Events : d <= e /\ Held(d)
      BY <1>2, <1>5, <2>1 DEF AnsweredIsSettled
    <3>2. d < head
      BY <1>1, <1>2, <2>1, <3>1 DEF AnsweredIsPast
    <3> QED  BY <1>6, <3>1, <3>2
  <2>2. CASE e \notin answered
    <3>1. e = head /\ head \in Events
      BY <2>2
    <3>2. CASE row'[head].attempts > 0
      BY <1>1, <3>1, <3>2 DEF Held
    <3>3. CASE \E d \in Events : d < head /\ Held(d)
      BY <1>1, <1>6, <3>1, <3>3
    <3> QED  BY <3>1, <3>2, <3>3
  <2> QED  BY <2>1, <2>2
<1> QED  BY <1>3, <1>4, <1>7, <1>8 DEF AInv

\* The answer of a request whose outcome is known.
LEMMA AnswerFacts ==
  ASSUME NEW status, Respond(status)
  PROVE  /\ req' = "idle"
         /\ \/ answered' = answered /\ head' = head
            \/ status = 200 /\ answered' = answered \cup {head} /\ head' = head + 1
  BY DEF Respond, gateway

LEMMA InlineRequestKeeps ==
  ASSUME IInv, AInv, InlineOnly,
         \/ Append \/ Enqueue \/ Route \/ InlineApply \/ InlineError \/ InlineSkip \/ InlineMark
         \/ RequestFails \/ GatewayRestart
  PROVE  AInv'
<1>1. /\ head \in Nat /\ Events \subseteq Nat /\ answered \subseteq Events /\ stored \subseteq Events
      /\ row \in [Events -> Rows]
      /\ decision \in [Events -> {"none", "defer", "blocked", "inline", "disabled"}]
      /\ applied \in [Events -> 0..2]
  BY InboxConstants DEF IInv, TypeOK, Events
<1>2. NoBatch /\ AnsweredIsPast /\ InlineDecisions /\ AnsweredIsSettled
  BY DEF AInv
<1>3. /\ head \notin answered /\ (req # "idle" => head \in Events)
      /\ \A e \in Events : row[e].status # "PROCESSING"
  BY <1>1, <1>2 DEF AnsweredIsPast, NoBatch, IInv, RequestHolds
<1>4. /\ head \in Events /\ row[head].status = "DEAD_LETTER" => decision[head] = "inline"
      /\ req \in {"apply", "mark"} => decision[head] = "inline"
  BY <1>2 DEF InlineDecisions
<1>5. settings' = settings /\ pc' = pc
  BY DEF Append, Enqueue, Route, InlineApply, InlineError, InlineSkip, InlineMark, RequestFails,
         GatewayRestart, batches
<1>6. CASE Append \/ InlineError \/ RequestFails \/ GatewayRestart
  <2>1. /\ UNCHANGED <<row, decision, applied>> /\ answered' = answered /\ stored' \subseteq Events
        /\ head' \in {head, head + 1}
        /\ req' \in {"apply", "mark"} => head' = head /\ req = "apply"
    BY <1>1, <1>6 DEF Append, InlineError, RequestFails, GatewayRestart, inbox, gateway
  <2> QED  BY <1>3, <1>4, <1>5, <2>1, HeadStepKeeps
<1>7. CASE Enqueue
  <2>1. /\ UNCHANGED <<decision, applied, answered, stored, head>> /\ req' = "route" /\ head \in Events
        /\ row' = row \/ (row[head].status = "NONE" /\ row' = [row EXCEPT ![head] = NewRow])
    BY <1>3, <1>7 DEF Enqueue, gateway
  <2>2. NewRow.status = "PENDING"
    BY DEF NewRow
  <2>3. /\ \A e \in Events : e # head => row'[e] = row[e]
        /\ row'[head] = row[head] \/ row'[head].status = "PENDING"
    BY <1>1, <2>1, <2>2
  <2> QED  BY <1>1, <1>3, <1>4, <1>5, <2>1, <2>3, HeadStepKeeps
<1>8. CASE Route
  <2>0. /\ UNCHANGED <<row, applied, stored>> /\ head \in Events /\ req = "route" /\ row[head].status # "NONE"
    BY <1>3, <1>8 DEF Route, IInv, RequestHolds
  <2>1. CASE row[head].status = "APPLIED"
    <3>1. req' = "apply" /\ UNCHANGED <<decision, head, answered>>
      BY <1>8, <2>1 DEF Route, gateway
    <3>2. decision[head] = "inline"
      BY <1>2, <2>0, <2>1 DEF IInv, Once, InlineDecisions
    <3> QED  BY <1>1, <1>3, <1>4, <1>5, <2>0, <3>1, <3>2, HeadStepKeeps
  <2>2. CASE row[head].status # "APPLIED"
    <3>1. decision' = [decision EXCEPT ![head] = Decide(head)]
      BY <1>8, <2>2 DEF Route
    <3>2. \/ req' = "apply" /\ Decide(head) = "inline" /\ answered' = answered /\ head' = head
          \/ /\ Decide(head) # "inline" /\ req' = "idle"
             /\ \/ answered' = answered /\ head' = head
                \/ answered' = answered \cup {head} /\ head' = head + 1
      <4>1. Decide(head) # "inline" => Respond(200)
        BY <1>8, <2>2 DEF Route
      <4>2. Decide(head) = "inline" => req' = "apply" /\ answered' = answered /\ head' = head
        BY <1>8, <2>2 DEF Route, gateway
      <4> QED  BY <4>1, <4>2, AnswerFacts
    <3>3. ASSUME Decide(head) # decision[head] \/ Decide(head) # "inline"
          PROVE  \/ Decide(head) = "inline" /\ decision[head] = "none"
                 \/ /\ Decide(head) = "blocked" /\ decision[head] \in {"none", "blocked"}
                    /\ \E d \in Events : d < head /\ Held(d)
      <4>1. CASE decision[head] # "none"
        BY <1>2, <2>0, <3>3, <4>1 DEF Decide, InlineDecisions
      <4>2. CASE decision[head] = "none" /\ Unresolved # {} /\ ~Earliest(head)
        <5>1. Decide(head) = "blocked"
          BY <4>2 DEF Decide, Ready, InlineOnly
        <5>2. head \in Unresolved
          BY <1>1, <2>0, <2>2 DEF Unresolved, Rows
        <5>3. PICK d \in Unresolved : ~(head <= d)
          BY <4>2, <5>2 DEF Earliest
        <5>4. d \in Events /\ d < head /\ row[d].status \in {"PENDING", "PROCESSING", "DEAD_LETTER"}
          BY <1>1, <5>3 DEF Unresolved
        <5>5. CASE d \notin answered
          BY <4>2, <5>1, <5>4, <5>5 DEF Held
        <5>6. CASE d \in answered
          <6>1. PICK k \in Events : k <= d /\ Held(k)
            BY <1>2, <5>4, <5>6 DEF AnsweredIsSettled
          <6>2. k < head
            BY <1>1, <5>4, <6>1
          <6> QED  BY <4>2, <5>1, <6>1, <6>2
        <5> QED  BY <5>5, <5>6
      <4>3. CASE decision[head] = "none" /\ ~(Unresolved # {} /\ ~Earliest(head))
        BY <4>3 DEF Decide, Ready, InlineOnly
      <4> QED  BY <4>1, <4>2, <4>3
    <3>4. decision'[head] = Decide(head) /\ \A e \in Events : e # head => decision'[e] = decision[e]
      BY <1>1, <2>0, <3>1
    <3>5. \A e \in Events : decision'[e] # decision[e] =>
            /\ e = head /\ decision[e] = "none"
            /\ decision'[e] = "inline" \/ (decision'[e] = "blocked" /\ \E d \in Events : d < e /\ Held(d))
      BY <3>3, <3>4
    <3>6. head \in answered' => \E d \in Events : d < head /\ Held(d)
      BY <1>3, <3>2, <3>3
    <3>7. row[head].status = "DEAD_LETTER" => head \notin answered'
      BY <1>3, <1>4, <2>0, <3>2, <3>3
    <3> QED  BY <1>1, <1>3, <1>4, <1>5, <2>0, <3>2, <3>4, <3>5, <3>6, <3>7, HeadStepKeeps
  <2> QED  BY <2>1, <2>2
<1>9. CASE InlineApply
  <2> DEFINE n == [row[head] EXCEPT !.status = "APPLIED", !.owner = None, !.stale = FALSE]
  <2>1. /\ UNCHANGED <<decision, stored>> /\ head \in Events /\ req = "apply" /\ Respond(200) /\ ApplyRow(head)
    BY <1>3, <1>9 DEF InlineApply
  <2>2. n.status = "APPLIED"
    BY <1>1, <2>1, FieldsSet
  <2>3. row' = [row EXCEPT ![head] = n]
    BY <2>1 DEF ApplyRow
  <2> HIDE DEF n
  <2>4. row'[head].status = "APPLIED" /\ \A e \in Events : e # head => row'[e] = row[e]
    BY <1>1, <2>1, <2>2, <2>3
  <2>5. \A e \in Events : e # head => applied'[e] = applied[e]
    BY <1>1, <2>1 DEF ApplyRow
  <2>6. /\ req' = "idle"
        /\ \/ answered' = answered /\ head' = head
           \/ answered' = answered \cup {head} /\ head' = head + 1
    BY <2>1, AnswerFacts
  <2> QED  BY <1>1, <1>3, <1>4, <1>5, <2>1, <2>4, <2>5, <2>6, HeadStepKeeps
<1>10. CASE InlineSkip
  <2>1. /\ UNCHANGED <<row, decision, applied, stored>> /\ head \in Events /\ req = "apply"
        /\ row[head].status \in {"APPLIED", "PROCESSING", "DEAD_LETTER"}
        /\ Respond(IF row[head].status = "DEAD_LETTER" THEN 500 ELSE 200)
    BY <1>3, <1>10 DEF InlineSkip, inbox
  <2>2. /\ req' = "idle"
        /\ \/ answered' = answered /\ head' = head
           \/ row[head].status = "APPLIED" /\ answered' = answered \cup {head} /\ head' = head + 1
    BY <1>3, <2>1, AnswerFacts
  <2> QED  BY <1>1, <1>3, <1>4, <1>5, <2>1, <2>2, HeadStepKeeps
<1>11. CASE InlineMark
  <2> DEFINE n == Retried(row[head], FALSE)
  <2>1. /\ UNCHANGED <<decision, applied, stored>> /\ head \in Events /\ req = "mark" /\ MarkFailure(head)
        /\ Respond(IF row'[head].status = "DEAD_LETTER" THEN 500 ELSE 200)
    BY <1>3, <1>11 DEF InlineMark
  <2>2. n.status \in {"PENDING", "DEAD_LETTER"} /\ n.attempts > 0
    <3>1. row[head].attempts \in 0..RetryLimit /\ RetryLimit \in Nat \ {0}
      BY <1>1, <2>1, InboxConstants DEF Rows
    <3>2. n.attempts = IF row[head].attempts < RetryLimit THEN row[head].attempts + 1 ELSE RetryLimit
      BY DEF Retried
    <3>3. n.status \in {"PENDING", "DEAD_LETTER"}
      BY <1>1, <2>1, WrittenRows
    <3> HIDE DEF n
    <3>4. n.attempts > 0
      BY <3>1, <3>2
    <3> QED  BY <3>3, <3>4
  <2>3. row' = [row EXCEPT ![head] = n]
    BY <2>1 DEF MarkFailure
  <2> HIDE DEF n
  <2>4. /\ row'[head].status \in {"PENDING", "DEAD_LETTER"} /\ row'[head].attempts > 0
        /\ \A e \in Events : e # head => row'[e] = row[e]
    BY <1>1, <2>1, <2>2, <2>3
  <2>5. /\ req' = "idle"
        /\ \/ answered' = answered /\ head' = head
           \/ row'[head].status # "DEAD_LETTER" /\ answered' = answered \cup {head} /\ head' = head + 1
    BY <2>1, AnswerFacts
  <2> QED  BY <1>1, <1>3, <1>4, <1>5, <2>1, <2>4, <2>5, HeadStepKeeps
<1> QED  BY <1>6, <1>7, <1>8, <1>9, <1>10, <1>11

LEMMA InlineStepKeeps ==
  ASSUME IInv, AInv, [Next]_vars
  PROVE  AInv'
<1>0. settings' = settings
  BY DEF Next, vars, Append, Enqueue, Route, InlineApply, InlineError, InlineSkip, InlineMark, RequestFails,
     GatewayRestart, BatchStep, StartBatch, ResetStale, Claim, WorkerApply, WorkerSkip, WorkerMark, EndBatch,
     WorkerError, BatchDies, ClaimAges, RetryDue, ResetDeadLetter, HealthAges
<1> SUFFICES ASSUME InlineOnly
             PROVE  AInv'
  BY <1>0 DEF AInv, InlineOnly
<1>1. /\ head \in Nat /\ Events \subseteq Nat /\ answered \subseteq Events /\ stored \subseteq Events
      /\ row \in [Events -> Rows]
  BY InboxConstants DEF IInv, TypeOK, Events
<1>2. NoBatch /\ AnsweredIsPast /\ InlineDecisions
  BY DEF AInv
<1>3. /\ head \notin answered /\ \A e \in Events : row[e].status # "PROCESSING"
      /\ head \in Events /\ row[head].status = "DEAD_LETTER" => decision[head] = "inline"
      /\ req \in {"apply", "mark"} => decision[head] = "inline"
  BY <1>1, <1>2 DEF AnsweredIsPast, NoBatch, InlineDecisions
<1>4. ASSUME UNCHANGED <<settings, pc, row, decision, applied, answered, head, stored, req>>
      PROVE  AInv'
  BY <1>1, <1>3, <1>4, HeadStepKeeps
<1>5. CASE UNCHANGED vars \/ HealthAges
  BY <1>4, <1>5 DEF vars, HealthAges, inbox, gateway
<1>6. ASSUME NEW w \in Workers, BatchStep(w) \/ WorkerError(w) \/ BatchDies(w)
      PROVE  FALSE
  <2>1. pc[w] = "idle" /\ ~settings.worker
    BY <1>2 DEF NoBatch, InlineOnly
  <2> QED  BY <1>6, <2>1 DEF BatchStep, StartBatch, ResetStale, Claim, WorkerApply, WorkerSkip, WorkerMark,
              EndBatch, WorkerError, BatchDies
<1>7. ASSUME NEW e \in Events, ClaimAges(e) \/ RetryDue(e) \/ ResetDeadLetter(e)
      PROVE  AInv'
  <2>1. UNCHANGED <<settings, pc, decision, applied, answered, head, stored, req>>
    BY <1>7 DEF ClaimAges, RetryDue, ResetDeadLetter, gateway, batches
  <2>2. CASE ClaimAges(e)
    BY <1>3, <2>2 DEF ClaimAges
  <2>3. CASE RetryDue(e)
    <3> DEFINE n == [row[e] EXCEPT !.due = TRUE]
    <3>1. row' = [row EXCEPT ![e] = n]
      BY <2>3 DEF RetryDue
    <3>2. n.status = row[e].status /\ n.attempts = row[e].attempts
      BY <1>1 DEF Rows
    <3> HIDE DEF n
    <3>3. \A k \in Events : row'[k].status = row[k].status /\ row'[k].attempts = row[k].attempts
      BY <1>1, <3>1, <3>2
    <3> QED  BY <1>1, <1>3, <2>1, <3>3, HeadStepKeeps
  <2>4. CASE ResetDeadLetter(e)
    <3>1. row' = [row EXCEPT ![e] = NewRow] /\ row[e].status = "DEAD_LETTER" /\ NewRow.status = "PENDING"
      BY <2>4 DEF ResetDeadLetter, NewRow
    <3>2. row'[e].status = "PENDING" /\ \A k \in Events : k # e => row'[k] = row[k]
      BY <1>1, <3>1
    <3> QED  BY <1>1, <1>3, <2>1, <3>1, <3>2, HeadStepKeeps
  <2> QED  BY <1>7, <2>2, <2>3, <2>4
<1> QED  BY <1>5, <1>6, <1>7, InlineRequestKeeps DEF Next

\* Where the request applies events and no worker runs, an answered event is applied, or it
\* or an earlier one failed or was never answered: no order of repeated requests, lost
\* answers, restarts and resets leaves an answered event behind without such a cause.
THEOREM InlineAnswersAreApplied == Spec => []InlineAnswerIsApplied
<1>1. Init => AInv
  <2> SUFFICES ASSUME Init
               PROVE  NoBatch /\ AnsweredIsPast /\ InlineDecisions /\ AnsweredIsSettled
    BY DEF AInv
  <2>1. NoRow.status = "NONE"
    BY DEF NoRow
  <2>2. /\ \A e \in Events : row[e].status = "NONE" /\ applied[e] = 0 /\ decision[e] = "none"
        /\ answered = {} /\ req = "idle" /\ \A w \in Workers : pc[w] = "idle"
    BY <2>1 DEF Init
  <2> QED  BY <2>2 DEF NoBatch, AnsweredIsPast, InlineDecisions, AnsweredIsSettled
<1>2. IInv /\ AInv /\ [Next]_vars => AInv'
  BY InlineStepKeeps
<1>3. IInv /\ AInv => InlineAnswerIsApplied
  <2> SUFFICES ASSUME IInv, AInv, InlineOnly, NEW e \in answered, row[e].status # "APPLIED"
               PROVE  \E d \in 1..e : d \notin answered \/ row[d].attempts > 0
    BY DEF InlineAnswerIsApplied, InlineOnly
  <2>1. e \in 1..N /\ N \in Nat
    BY InboxConstants DEF IInv, TypeOK, Events
  <2>2. PICK d \in Events : d <= e /\ Held(d)
    BY DEF AInv, AnsweredIsSettled
  <2>3. d \in 1..e
    BY <2>1, <2>2 DEF Events
  <2> QED  BY <2>2, <2>3 DEF Held
<1> QED  BY <1>1, <1>2, <1>3, Inductive, PTL DEF Spec
=============================================================================
