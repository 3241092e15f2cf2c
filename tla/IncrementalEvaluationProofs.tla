--------------------- MODULE IncrementalEvaluationProofs ---------------------
(***************************************************************************)
(* No tick of a live candidate is forgotten by the incremental queue, for   *)
(* any candidates, enqueuers, workers and bounds.                           *)
(*                                                                         *)
(* NoTickForgotten is not inductive: a candidate that only a dead letter    *)
(* blocks would be forgotten if an operator could lift the block without    *)
(* an evaluation.  What keeps it is that the newest dead letter of such a   *)
(* candidate is OPEN (ForgottenIsOpen): RESET_CANARY queues the candidate   *)
(* again, and VERIFY_CANARY looks at the newest dead letter only.           *)
(* And the one window that the property leaves open, a tick between the     *)
(* refresh and the evaluation, is the only one: a worker past its refresh   *)
(* has read the latest tick or that tick has come since (ReadOrSlipped).    *)
(***************************************************************************)
EXTENDS IncrementalEvaluation, SequenceTheorems, TLAPS

Dispositions == {"OPEN", "DISPOSED", "CANARY", "VERIFIED"}
Ticks == 0..MaxTicks

Shape ==
  /\ active \in [Cands -> BOOLEAN]
  /\ tick \in [Cands -> Ticks] /\ priced \in [Cands -> Ticks]
  /\ judged \in [Cands -> Ticks] /\ slipped \in [Cands -> Ticks]
  /\ dropped \in [Cands -> Ticks]
  /\ line \in Seq(Cands)
  /\ attempts \in [Cands -> 0..RetryLimit - 1]
  /\ dead \in [Cands -> Seq(Dispositions)]
  /\ enq \in [Enqueuers -> [at : {"idle", "check", "insert"}, on : Cands \cup {None}]]
  /\ lock \in Workers \cup {None}
  /\ run \in [Workers -> [at : {"idle", "row", "refreshed", "error"}, rows : Seq(Cands), read : Ticks]]

\* A candidate has one row at most.
OneRowEach == \A i, j \in 1 .. Len(line) : line[i] = line[j] => i = j

\* An enqueuer that is at work has a candidate, a worker at a row has the row.
AtWork ==
  /\ \A e \in Enqueuers : enq[e].at # "idle" <=> enq[e].on # None
  /\ \A w \in Workers : run[w].at \in {"refreshed", "error"} => run[w].rows # <<>>

\* A worker past its refresh has read the latest tick, or that tick has slipped in since.
ReadOrSlipped ==
  \A w \in Workers :
    run[w].at = "refreshed" => run[w].read = tick[Row(w)] \/ slipped[Row(w)] = tick[Row(w)]

\* An unread tick that nobody has in hand.
Unread(c) ==
  /\ active[c] /\ tick[c] > judged[c] /\ dropped[c] # tick[c]
  /\ ~(slipped[c] = tick[c] /\ priced[c] = tick[c])
  /\ ~Queued(c) /\ ~Enqueueing(c)

\* Its candidate waits for the operator at an OPEN dead letter, the newest.
ForgottenIsOpen ==
  \A c \in Cands : Unread(c) => Len(dead[c]) > 0 /\ dead[c][Len(dead[c])] = "OPEN"

Inv == Shape /\ OneRowEach /\ AtWork /\ ReadOrSlipped /\ ForgottenIsOpen

-----------------------------------------------------------------------------
(* Removing a row *)

LEMMA RemoveAtProperties ==
  ASSUME NEW S, NEW s \in Seq(S), NEW k \in 1 .. Len(s)
  PROVE  /\ RemoveAt(s, k) \in Seq(S)
         /\ Len(RemoveAt(s, k)) = Len(s) - 1
         /\ \A i \in 1 .. Len(s) - 1 : RemoveAt(s, k)[i] = IF i < k THEN s[i] ELSE s[i + 1]
  <1> DEFINE a == SubSeq(s, 1, k - 1)
             b == SubSeq(s, k + 1, Len(s))
  <1>1. a \in Seq(S) /\ Len(a) = k - 1 /\ \A i \in 1 .. k - 1 : a[i] = s[i]
    OBVIOUS
  <1>2. b \in Seq(S) /\ Len(b) = Len(s) - k /\ \A i \in 1 .. Len(s) - k : b[i] = s[k + i]
    <2>1. Len(s) \in Nat /\ k + 1 \in Int /\ \A i \in k + 1 .. Len(s) : s[i] \in S
      OBVIOUS
    <2>2. /\ b \in Seq(S)
          /\ Len(b) = IF k + 1 <= Len(s) THEN Len(s) - (k + 1) + 1 ELSE 0
          /\ \A i \in 1 .. Len(s) - (k + 1) + 1 : b[i] = s[(k + 1) + i - 1]
      BY <2>1, SubSeqProperties
    <2> QED BY <2>1, <2>2
  <1>3. RemoveAt(s, k) = a \o b
    BY DEF RemoveAt
  <1> HIDE DEF a, b
  <1>4. a \o b \in Seq(S) /\ Len(a \o b) = Len(a) + Len(b)
    BY <1>1, <1>2, ConcatProperties
  <1>5. \A i \in 1 .. Len(s) - 1 : (a \o b)[i] = IF i < k THEN s[i] ELSE s[i + 1]
    <2> TAKE i \in 1 .. Len(s) - 1
    <2>1. (a \o b)[i] = IF i <= Len(a) THEN a[i] ELSE b[i - Len(a)]
      BY <1>1, <1>2, ConcatProperties
    <2> QED BY <2>1, <1>1, <1>2
  <1> QED BY <1>1, <1>2, <1>3, <1>4, <1>5

\* The queue without c: c is gone, every other candidate keeps its row.
LEMMA WithoutProperties ==
  ASSUME line \in Seq(Cands), OneRowEach, NEW c
  PROVE  /\ Without(c) \in Seq(Cands)
         /\ \A i, j \in 1 .. Len(Without(c)) : Without(c)[i] = Without(c)[j] => i = j
         /\ \A d : Contains(Without(c), d) <=> Queued(d) /\ d # c
  <1>1. CASE ~Queued(c)
    BY <1>1 DEF Without, OneRowEach, Queued, Contains
  <1>2. CASE Queued(c)
    <2> DEFINE k == CHOOSE i \in DOMAIN line : line[i] = c
               t == RemoveAt(line, k)
    <2>1. k \in 1 .. Len(line) /\ line[k] = c
      BY <1>2 DEF Queued, Contains
    <2>2. Without(c) = t
      BY <1>2 DEF Without
    <2> HIDE DEF k
    <2>3. /\ t \in Seq(Cands) /\ Len(t) = Len(line) - 1
          /\ \A i \in 1 .. Len(line) - 1 : t[i] = IF i < k THEN line[i] ELSE line[i + 1]
      BY <2>1, RemoveAtProperties
    <2> HIDE DEF t
    <2>4. \A i, j \in 1 .. Len(t) : t[i] = t[j] => i = j
      BY <2>1, <2>3 DEF OneRowEach
    <2>5. ASSUME NEW d, Contains(t, d) PROVE Queued(d) /\ d # c
      BY <2>1, <2>3, <2>5 DEF OneRowEach, Queued, Contains
    <2>6. ASSUME NEW d, Queued(d), d # c PROVE Contains(t, d)
      <3>1. PICK i \in 1 .. Len(line) : line[i] = d
        BY <2>6 DEF Queued, Contains
      <3>2. CASE i < k
        BY <2>1, <2>3, <3>1, <3>2 DEF Contains
      <3>3. CASE i > k
        <4>1. i - 1 \in 1 .. Len(t) /\ t[i - 1] = d
          BY <2>1, <2>3, <3>1, <3>3
        <4> QED BY <4>1 DEF Contains
      <3> QED BY <2>1, <2>6, <3>1, <3>2, <3>3
    <2> QED BY <2>2, <2>3, <2>4, <2>5, <2>6
  <1> QED BY <1>1, <1>2

\* Adding a row at the end for a candidate that has none.
LEMMA AppendRow ==
  ASSUME NEW s \in Seq(Cands), NEW c \in Cands, ~Contains(s, c),
         \A i, j \in 1 .. Len(s) : s[i] = s[j] => i = j
  PROVE  /\ Append(s, c) \in Seq(Cands)
         /\ \A i, j \in 1 .. Len(Append(s, c)) : Append(s, c)[i] = Append(s, c)[j] => i = j
         /\ \A d : Contains(Append(s, c), d) <=> Contains(s, d) \/ d = c
  <1>1. /\ Append(s, c) \in Seq(Cands) /\ Len(Append(s, c)) = Len(s) + 1
        /\ \A i \in 1 .. Len(s) : Append(s, c)[i] = s[i]
        /\ Append(s, c)[Len(s) + 1] = c
    OBVIOUS
  <1> DEFINE t == Append(s, c)
  <1> HIDE DEF t
  <1>2. /\ t \in Seq(Cands) /\ Len(t) = Len(s) + 1
        /\ \A i \in 1 .. Len(s) : t[i] = s[i]
        /\ t[Len(s) + 1] = c
    BY <1>1 DEF t
  <1>3. \A i \in 1 .. Len(s) : s[i] # c
    BY DEF Contains
  <1>4. \A i, j \in 1 .. Len(t) : t[i] = t[j] => i = j
    BY <1>2, <1>3
  <1>5. \A d : Contains(t, d) <=> Contains(s, d) \/ d = c
    BY <1>2 DEF Contains
  <1> QED BY <1>2, <1>4, <1>5 DEF t

-----------------------------------------------------------------------------
(* What a step can do to the queue *)

\* Afterwards the queue holds the rows of the candidates P, one each.
QueueIs(P) ==
  /\ line' \in Seq(Cands) /\ OneRowEach'
  /\ \A d \in Cands : Queued(d)' <=> d \in P

QueuedNow == {d \in Cands : Queued(d)}

LEMMA QueueSame == Inv /\ UNCHANGED line => QueueIs(QueuedNow)
  BY DEF Inv, Shape, QueueIs, QueuedNow, OneRowEach, Queued

LEMMA QueueDrops ==
  ASSUME Inv, NEW c, line' = Without(c)
  PROVE  QueueIs(QueuedNow \ {c})
  <1>1. /\ Without(c) \in Seq(Cands)
        /\ \A i, j \in 1 .. Len(Without(c)) : Without(c)[i] = Without(c)[j] => i = j
        /\ \A d : Contains(Without(c), d) <=> Queued(d) /\ d # c
    BY WithoutProperties DEF Inv, Shape
  <1> QED BY <1>1 DEF QueueIs, QueuedNow, OneRowEach, Queued

LEMMA QueueMoves ==
  ASSUME Inv, NEW c \in Cands, line' = Append(Without(c), c)
  PROVE  QueueIs(QueuedNow \cup {c})
  <1> DEFINE s == Without(c)
  <1>1. /\ s \in Seq(Cands)
        /\ \A i, j \in 1 .. Len(s) : s[i] = s[j] => i = j
        /\ \A d : Contains(s, d) <=> Queued(d) /\ d # c
    BY WithoutProperties DEF Inv, Shape
  <1> HIDE DEF s
  <1>2. /\ Append(s, c) \in Seq(Cands)
        /\ \A i, j \in 1 .. Len(Append(s, c)) : Append(s, c)[i] = Append(s, c)[j] => i = j
        /\ \A d : Contains(Append(s, c), d) <=> Contains(s, d) \/ d = c
    BY <1>1, AppendRow
  <1>3. line' = Append(s, c)
    BY DEF s
  <1> QED BY <1>1, <1>2, <1>3 DEF QueueIs, QueuedNow, OneRowEach, Queued

LEMMA QueueGrows ==
  ASSUME Inv, NEW c \in Cands, ~Queued(c), line' = Append(line, c)
  PROVE  QueueIs(QueuedNow \cup {c})
  <1>1. /\ Append(line, c) \in Seq(Cands)
        /\ \A i, j \in 1 .. Len(Append(line, c)) : Append(line, c)[i] = Append(line, c)[j] => i = j
        /\ \A d : Contains(Append(line, c), d) <=> Contains(line, d) \/ d = c
    BY AppendRow DEF Inv, Shape, OneRowEach, Queued
  <1> QED BY <1>1 DEF QueueIs, QueuedNow, OneRowEach, Queued

\* The newest dead letter of c is OPEN after the step.
NewestOpen(c) == Len(dead'[c]) > 0 /\ dead'[c][Len(dead'[c])] = "OPEN"

\* It is enough to look at what becomes unread in a step.
LEMMA ForgottenKept ==
  ASSUME Inv, \A c \in Cands : Unread(c)' => (Unread(c) /\ dead'[c] = dead[c]) \/ NewestOpen(c)
  PROVE  ForgottenIsOpen'
  BY DEF Inv, ForgottenIsOpen, NewestOpen

\* A worker that comes to a refresh, or has a new tick before it, is what matters.
LEMMA ReadKept ==
  ASSUME Inv, UNCHANGED <<tick, slipped>>,
         \A w \in Workers : run'[w].at = "refreshed" => run'[w] = run[w]
  PROVE  ReadOrSlipped'
  BY DEF Inv, ReadOrSlipped, Row

LEMMA TickFacts ==
  /\ 0 \in Ticks
  /\ \A t \in Ticks : t \in Nat /\ (t < MaxTicks => t + 1 \in Ticks)
  BY IncrementalConstants DEF Ticks

-----------------------------------------------------------------------------
(* The invariant at the start, and step by step *)

LEMMA InitInv == Init => Inv
  BY TickFacts, IncrementalConstants DEF Init, Inv, Shape, OneRowEach, AtWork, ReadOrSlipped, ForgottenIsOpen, Unread, Idle

LEMMA IdleType ==
  /\ Idle \in [at : {"idle", "row", "refreshed", "error"}, rows : Seq(Cands), read : Ticks]
  /\ Idle.at = "idle"
  BY TickFacts DEF Idle

LEMMA ApplyTickKeeps ==
  ASSUME Inv, NEW e \in Enqueuers, NEW c \in Cands, ApplyTick(e, c)
  PROVE  Inv'
  <1> USE IncrementalConstants, TickFacts DEF ApplyTick, queueVars, readVars
  <1>1. QueueIs(QueuedNow)
    BY QueueSame
  <1>2. Shape' /\ AtWork'
    BY <1>1 DEF Inv, Shape, AtWork, QueueIs
  <1>3. \A d \in Cands : Unread(d)' => (Unread(d) /\ dead'[d] = dead[d]) \/ NewestOpen(d)
    BY <1>1 DEF Inv, Shape, AtWork, QueueIs, QueuedNow, Unread, Enqueueing
  <1>4. ReadOrSlipped'
    <2> SUFFICES ASSUME NEW w \in Workers, run[w].at = "refreshed"
                 PROVE  run[w].read = tick'[Row(w)] \/ slipped'[Row(w)] = tick'[Row(w)]
      BY DEF ReadOrSlipped, Row
    <2>1. Row(w) \in Cands
      BY DEF Inv, Shape, AtWork, Row
    <2>2. CASE Row(w) = c
      BY <2>2 DEF Inv, Shape
    <2>3. CASE Row(w) # c
      BY <2>1, <2>3 DEF Inv, Shape, ReadOrSlipped
    <2> QED BY <2>2, <2>3
  <1> QED BY <1>1, <1>2, <1>3, <1>4, ForgottenKept DEF Inv, QueueIs

LEMMA BackfillKeeps ==
  ASSUME Inv, NEW e \in Enqueuers, NEW c \in Cands, Backfill(e, c)
  PROVE  Inv'
  <1> USE IncrementalConstants, TickFacts DEF Backfill, queueVars, readVars
  <1>1. QueueIs(QueuedNow)
    BY QueueSame
  <1>2. Shape' /\ AtWork'
    BY <1>1 DEF Inv, Shape, AtWork, QueueIs
  <1>3. \A d \in Cands : Unread(d)' => (Unread(d) /\ dead'[d] = dead[d]) \/ NewestOpen(d)
    BY <1>1 DEF Inv, Shape, AtWork, QueueIs, QueuedNow, Unread, Enqueueing
  <1>4. ReadOrSlipped'
    BY ReadKept, IdleType DEF Inv, Shape
  <1> QED BY <1>1, <1>2, <1>3, <1>4, ForgottenKept DEF Inv, QueueIs

LEMMA CheckKeeps ==
  ASSUME Inv, NEW e \in Enqueuers, Check(e)
  PROVE  Inv'
  <1> USE IncrementalConstants, TickFacts
  <1> DEFINE c == enq[e].on
  <1>0. c \in Cands /\ enq[e].at = "check"
    BY DEF Check, Inv, Shape, AtWork
  <1>1. QueueIs(QueuedNow)
    BY QueueSame DEF Check, queueVars, readVars
  <1>2. UNCHANGED <<active, tick, readVars, line, attempts, dead, lock, run>>
    BY DEF Check, queueVars, readVars
  <1>3. \/ enq' = [enq EXCEPT ![e].at = "insert"] /\ dropped' = dropped
        \/ /\ enq' = [enq EXCEPT ![e] = [at |-> "idle", on |-> None]]
           /\ dropped' = [dropped EXCEPT ![c] = tick[c]]
    BY DEF Check
  <1>4. CASE enq' = [enq EXCEPT ![e].at = "insert"] /\ dropped' = dropped
    <2>1. Shape' /\ AtWork'
      BY <1>0, <1>1, <1>2, <1>4 DEF readVars, Inv, Shape, AtWork, QueueIs
    <2>2. \A d \in Cands : Unread(d)' => Unread(d) /\ dead'[d] = dead[d]
      BY <1>0, <1>1, <1>2, <1>4 DEF readVars, Inv, Shape, AtWork, QueueIs, QueuedNow, Unread, Enqueueing
    <2>3. ReadOrSlipped'
      BY <1>2, ReadKept DEF readVars
    <2> QED BY <1>1, <2>1, <2>2, <2>3, ForgottenKept DEF Inv, QueueIs
  <1>5. CASE /\ enq' = [enq EXCEPT ![e] = [at |-> "idle", on |-> None]]
             /\ dropped' = [dropped EXCEPT ![c] = tick[c]]
    <2>1. Shape' /\ AtWork'
      BY <1>0, <1>1, <1>2, <1>5 DEF readVars, Inv, Shape, AtWork, QueueIs
    <2>2. \A d \in Cands : Unread(d)' => Unread(d) /\ dead'[d] = dead[d]
      BY <1>0, <1>1, <1>2, <1>5 DEF readVars, Inv, Shape, AtWork, QueueIs, QueuedNow, Unread, Enqueueing
    <2>3. ReadOrSlipped'
      BY <1>2, ReadKept DEF readVars
    <2> QED BY <1>1, <2>1, <2>2, <2>3, ForgottenKept DEF Inv, QueueIs
  <1> QED BY <1>3, <1>4, <1>5

LEMMA InsertKeeps ==
  ASSUME Inv, NEW e \in Enqueuers, Insert(e)
  PROVE  Inv'
  <1> USE IncrementalConstants, TickFacts DEF Insert, readVars
  <1>0. enq[e].on \in Cands
    BY DEF Inv, Shape, AtWork
  <1>1. QueueIs(QueuedNow \cup {enq[e].on})
    BY <1>0, QueueMoves
  <1>2. Shape' /\ AtWork'
    BY <1>0, <1>1 DEF Inv, Shape, AtWork, QueueIs
  <1>3. \A d \in Cands : Unread(d)' => (Unread(d) /\ dead'[d] = dead[d]) \/ NewestOpen(d)
    BY <1>0, <1>1 DEF Inv, Shape, AtWork, QueueIs, QueuedNow, Unread, Enqueueing
  <1>4. ReadOrSlipped'
    BY ReadKept, IdleType DEF Inv, Shape
  <1> QED BY <1>1, <1>2, <1>3, <1>4, ForgottenKept DEF Inv, QueueIs

LEMMA EnqueueFailsKeeps ==
  ASSUME Inv, NEW e \in Enqueuers, EnqueueFails(e)
  PROVE  Inv'
  <1> USE IncrementalConstants, TickFacts DEF EnqueueFails, queueVars, readVars
  <1>0. enq[e].on \in Cands
    BY DEF Inv, Shape, AtWork
  <1>1. QueueIs(QueuedNow)
    BY QueueSame
  <1>2. Shape' /\ AtWork'
    BY <1>0, <1>1 DEF Inv, Shape, AtWork, QueueIs
  <1>3. \A d \in Cands : Unread(d)' => (Unread(d) /\ dead'[d] = dead[d]) \/ NewestOpen(d)
    BY <1>0, <1>1 DEF Inv, Shape, AtWork, QueueIs, QueuedNow, Unread, Enqueueing
  <1>4. ReadOrSlipped'
    BY ReadKept, IdleType DEF Inv, Shape
  <1> QED BY <1>1, <1>2, <1>3, <1>4, ForgottenKept DEF Inv, QueueIs

LEMMA CloseKeeps ==
  ASSUME Inv, NEW c \in Cands, Close(c)
  PROVE  Inv'
  <1> USE IncrementalConstants, TickFacts DEF Close, queueVars, readVars
  <1>1. QueueIs(QueuedNow)
    BY QueueSame
  <1>2. Shape' /\ AtWork'
    BY <1>1 DEF Inv, Shape, AtWork, QueueIs
  <1>3. \A d \in Cands : Unread(d)' => (Unread(d) /\ dead'[d] = dead[d]) \/ NewestOpen(d)
    BY <1>1 DEF Inv, Shape, AtWork, QueueIs, QueuedNow, Unread, Enqueueing
  <1>4. ReadOrSlipped'
    BY ReadKept, IdleType DEF Inv, Shape
  <1> QED BY <1>1, <1>2, <1>3, <1>4, ForgottenKept DEF Inv, QueueIs

LEMMA StartBatchKeeps ==
  ASSUME Inv, NEW w \in Workers, StartBatch(w)
  PROVE  Inv'
  <1> USE IncrementalConstants, TickFacts DEF StartBatch, queueVars, readVars
  <1>1. QueueIs(QueuedNow)
    BY QueueSame
  <1>2. Shape' /\ AtWork'
    BY <1>1 DEF Inv, Shape, AtWork, QueueIs
  <1>3. \A d \in Cands : Unread(d)' => (Unread(d) /\ dead'[d] = dead[d]) \/ NewestOpen(d)
    BY <1>1 DEF Inv, Shape, AtWork, QueueIs, QueuedNow, Unread, Enqueueing
  <1>4. ReadOrSlipped'
    BY ReadKept, IdleType DEF Inv, Shape
  <1> QED BY <1>1, <1>2, <1>3, <1>4, ForgottenKept DEF Inv, QueueIs

LEMMA SkipClosedKeeps ==
  ASSUME Inv, NEW w \in Workers, SkipClosed(w)
  PROVE  Inv'
  <1> USE IncrementalConstants, TickFacts DEF SkipClosed, NextRow, readVars
  <1>0. /\ run[w].rows \in Seq(Cands) /\ run[w].rows # <<>>
        /\ Row(w) \in Cands /\ Tail(run[w].rows) \in Seq(Cands)
    BY DEF Inv, Shape, AtWork, Row
  <1>1. QueueIs(QueuedNow \ {Row(w)})
    BY <1>0, QueueDrops
  <1>2. Shape' /\ AtWork'
    BY <1>0, <1>1 DEF Inv, Shape, AtWork, QueueIs
  <1>3. \A d \in Cands : Unread(d)' => (Unread(d) /\ dead'[d] = dead[d]) \/ NewestOpen(d)
    BY <1>0, <1>1 DEF Inv, Shape, AtWork, QueueIs, QueuedNow, Unread, Enqueueing
  <1>4. ReadOrSlipped'
    BY ReadKept, IdleType DEF Inv, Shape
  <1> QED BY <1>1, <1>2, <1>3, <1>4, ForgottenKept DEF Inv, QueueIs

LEMMA RefreshKeeps ==
  ASSUME Inv, NEW w \in Workers, Refresh(w)
  PROVE  Inv'
  <1> USE IncrementalConstants, TickFacts DEF Refresh, queueVars, readVars
  <1>0. /\ run[w].rows \in Seq(Cands) /\ run[w].rows # <<>>
        /\ Row(w) \in Cands /\ Tail(run[w].rows) \in Seq(Cands)
    BY DEF Inv, Shape, AtWork, Row
  <1>1. QueueIs(QueuedNow)
    BY QueueSame
  <1>2. Shape' /\ AtWork'
    <2>1. PICK at \in {"refreshed", "error"} : run' = [run EXCEPT ![w].at = at, ![w].read = tick[Row(w)]]
      OBVIOUS
    <2>2. tick[Row(w)] \in Ticks
      BY <1>0 DEF Inv, Shape
    <2>3. run' \in [Workers -> [at : {"idle", "row", "refreshed", "error"}, rows : Seq(Cands), read : Ticks]]
      <3> DEFINE T == [at : {"idle", "row", "refreshed", "error"}, rows : Seq(Cands), read : Ticks]
                 r == [at |-> at, rows |-> run[w].rows, read |-> tick[Row(w)]]
      <3>1. run \in [Workers -> T]
        BY DEF Inv, Shape
      <3>2. r \in T
        BY <1>0, <2>2
      <3>3. run' = [run EXCEPT ![w] = r]
        BY <2>1, <3>1
      <3> HIDE DEF T, r
      <3>4. run' \in [Workers -> T]
        BY <3>1, <3>2, <3>3
      <3> QED BY <3>4 DEF T
    <2>4. UNCHANGED <<active, tick, readVars, line, attempts, dead, dropped, enq, lock>>
      BY DEF Refresh, queueVars, readVars
    <2>5. Shape'
      BY <1>1, <2>3, <2>4 DEF Inv, Shape, QueueIs
    <2>6. \A v \in Workers : run'[v].rows = run[v].rows /\ (v # w => run'[v].at = run[v].at)
      BY <2>1 DEF Inv, Shape
    <2>7. AtWork'
      BY <1>0, <2>4, <2>6 DEF Inv, AtWork
    <2> QED BY <2>5, <2>7
  <1>3. \A d \in Cands : Unread(d)' => (Unread(d) /\ dead'[d] = dead[d]) \/ NewestOpen(d)
    BY <1>0, <1>1 DEF Inv, Shape, AtWork, QueueIs, QueuedNow, Unread, Enqueueing
  <1>4. ReadOrSlipped'
    <2>1. PICK at \in {"refreshed", "error"} : run' = [run EXCEPT ![w].at = at, ![w].read = tick[Row(w)]]
      OBVIOUS
    <2>2. \A v \in Workers \ {w} : run'[v] = run[v]
      BY <2>1 DEF Inv, Shape
    <2>3. run'[w].rows = run[w].rows /\ run'[w].read = tick[Row(w)]
      BY <2>1 DEF Inv, Shape
    <2> QED BY <2>2, <2>3 DEF Inv, ReadOrSlipped, Row
  <1> QED BY <1>1, <1>2, <1>3, <1>4, ForgottenKept DEF Inv, QueueIs

LEMMA EvaluateKeeps ==
  ASSUME Inv, NEW w \in Workers, Evaluate(w)
  PROVE  Inv'
  <1> USE IncrementalConstants, TickFacts DEF Evaluate, NextRow, readVars
  <1>0. /\ run[w].rows \in Seq(Cands) /\ run[w].rows # <<>>
        /\ Row(w) \in Cands /\ Tail(run[w].rows) \in Seq(Cands)
    BY DEF Inv, Shape, AtWork, Row
  <1>1. QueueIs(QueuedNow \ {Row(w)})
    BY <1>0, QueueDrops
  <1>2. Shape' /\ AtWork'
    BY <1>0, <1>1 DEF Inv, Shape, AtWork, QueueIs
  <1>3. \A d \in Cands : Unread(d)' => (Unread(d) /\ dead'[d] = dead[d]) \/ NewestOpen(d)
    <2>0. PICK c \in Cands : c = Row(w)
      BY <1>0
    <2>1. /\ \A d \in Cands \ {c} : judged'[d] = judged[d] /\ priced'[d] = priced[d]
          /\ judged'[c] = run[w].read /\ priced'[c] = tick[c]
      BY <2>0 DEF Inv, Shape
    <2>2. run[w].read = tick[c] \/ slipped[c] = tick[c]
      BY <2>0 DEF Inv, ReadOrSlipped
    <2>3. tick[c] \in Nat
      BY <2>0 DEF Inv, Shape
    <2>4. ~Unread(c)'
      BY <2>1, <2>2, <2>3 DEF Unread
    <2>5. \A d \in Cands \ {c} : Unread(d)' => Unread(d) /\ dead'[d] = dead[d]
      BY <1>1, <2>0, <2>1 DEF QueueIs, QueuedNow, Unread, Enqueueing
    <2> QED BY <2>4, <2>5
  <1>4. ReadOrSlipped'
    BY ReadKept, IdleType DEF Inv, Shape
  <1> QED BY <1>1, <1>2, <1>3, <1>4, ForgottenKept DEF Inv, QueueIs

LEMMA EvaluateFailsKeeps ==
  ASSUME Inv, NEW w \in Workers, EvaluateFails(w)
  PROVE  Inv'
  <1> USE IncrementalConstants, TickFacts DEF EvaluateFails, queueVars, readVars
  <1>1. QueueIs(QueuedNow)
    BY QueueSame
  <1>2. Shape' /\ AtWork'
    BY <1>1 DEF Inv, Shape, AtWork, QueueIs
  <1>3. \A d \in Cands : Unread(d)' => (Unread(d) /\ dead'[d] = dead[d]) \/ NewestOpen(d)
    BY <1>1 DEF Inv, Shape, AtWork, QueueIs, QueuedNow, Unread, Enqueueing
  <1>4. ReadOrSlipped'
    BY ReadKept, IdleType DEF Inv, Shape
  <1> QED BY <1>1, <1>2, <1>3, <1>4, ForgottenKept DEF Inv, QueueIs

LEMMA MarkErrorRaisesKeeps ==
  ASSUME Inv, NEW w \in Workers, MarkErrorRaises(w)
  PROVE  Inv'
  <1> USE IncrementalConstants, TickFacts DEF MarkErrorRaises, EndRun, queueVars, readVars
  <1>1. QueueIs(QueuedNow)
    BY QueueSame
  <1>2. Shape' /\ AtWork'
    BY <1>1, IdleType DEF Inv, Shape, AtWork, QueueIs
  <1>3. \A d \in Cands : Unread(d)' => (Unread(d) /\ dead'[d] = dead[d]) \/ NewestOpen(d)
    BY <1>1 DEF Inv, Shape, AtWork, QueueIs, QueuedNow, Unread, Enqueueing
  <1>4. ReadOrSlipped'
    BY ReadKept, IdleType DEF Inv, Shape
  <1> QED BY <1>1, <1>2, <1>3, <1>4, ForgottenKept DEF Inv, QueueIs

LEMMA EndBatchKeeps ==
  ASSUME Inv, NEW w \in Workers, EndBatch(w)
  PROVE  Inv'
  <1> USE IncrementalConstants, TickFacts DEF EndBatch, EndRun, queueVars, readVars
  <1>1. QueueIs(QueuedNow)
    BY QueueSame
  <1>2. Shape' /\ AtWork'
    BY <1>1, IdleType DEF Inv, Shape, AtWork, QueueIs
  <1>3. \A d \in Cands : Unread(d)' => (Unread(d) /\ dead'[d] = dead[d]) \/ NewestOpen(d)
    BY <1>1 DEF Inv, Shape, AtWork, QueueIs, QueuedNow, Unread, Enqueueing
  <1>4. ReadOrSlipped'
    BY ReadKept, IdleType DEF Inv, Shape
  <1> QED BY <1>1, <1>2, <1>3, <1>4, ForgottenKept DEF Inv, QueueIs

LEMMA LeaseLostKeeps ==
  ASSUME Inv, NEW w \in Workers, LeaseLost(w)
  PROVE  Inv'
  <1> USE IncrementalConstants, TickFacts DEF LeaseLost, queueVars, readVars
  <1>1. QueueIs(QueuedNow)
    BY QueueSame
  <1>2. Shape' /\ AtWork'
    <2>1. PICK dies \in BOOLEAN : run' = IF dies THEN [run EXCEPT ![w] = Idle] ELSE run
      OBVIOUS
    <2>2. CASE run' = run
      BY <1>1, <2>2 DEF Inv, Shape, AtWork, QueueIs
    <2>3. CASE run' = [run EXCEPT ![w] = Idle]
      BY <1>1, <2>3, IdleType DEF Inv, Shape, AtWork, QueueIs
    <2> QED BY <2>1, <2>2, <2>3
  <1>3. \A d \in Cands : Unread(d)' => (Unread(d) /\ dead'[d] = dead[d]) \/ NewestOpen(d)
    BY <1>1 DEF Inv, Shape, AtWork, QueueIs, QueuedNow, Unread, Enqueueing
  <1>4. ReadOrSlipped'
    BY ReadKept, IdleType DEF Inv, Shape
  <1> QED BY <1>1, <1>2, <1>3, <1>4, ForgottenKept DEF Inv, QueueIs

\* A failure that is counted: the row goes to the end or becomes a dead letter, OPEN.
LEMMA CountAttemptMoves ==
  ASSUME Inv, NEW c \in Cands, CountAttempt(c), Queued(c)
  PROVE  /\ attempts' \in [Cands -> 0..RetryLimit - 1]
         /\ dead' \in [Cands -> Seq(Dispositions)]
         /\ \/ QueueIs(QueuedNow) /\ dead' = dead
            \/ QueueIs(QueuedNow \ {c}) /\ NewestOpen(c) /\ \A d \in Cands \ {c} : dead'[d] = dead[d]
  <1> USE IncrementalConstants, TickFacts
  <1>0. /\ attempts \in [Cands -> 0..RetryLimit - 1] /\ attempts[c] \in 0..RetryLimit - 1
        /\ dead \in [Cands -> Seq(Dispositions)] /\ dead[c] \in Seq(Dispositions)
    BY DEF Inv, Shape
  <1>1. CASE attempts[c] + 1 >= RetryLimit
    <2>1. /\ dead' = [dead EXCEPT ![c] = Append(@, "OPEN")]
          /\ line' = Without(c) /\ attempts' = attempts
      BY <1>1 DEF CountAttempt
    <2>2. /\ Append(dead[c], "OPEN") \in Seq(Dispositions)
          /\ Len(Append(dead[c], "OPEN")) = Len(dead[c]) + 1 /\ Len(dead[c]) \in Nat
          /\ Append(dead[c], "OPEN")[Len(dead[c]) + 1] = "OPEN"
      BY <1>0 DEF Dispositions
    <2>3. dead' \in [Cands -> Seq(Dispositions)] /\ dead'[c] = Append(dead[c], "OPEN")
      BY <1>0, <2>1, <2>2
    <2>4. NewestOpen(c)
      BY <2>2, <2>3 DEF NewestOpen
    <2> QED BY <1>0, <2>1, <2>3, <2>4, QueueDrops
  <1>2. CASE ~(attempts[c] + 1 >= RetryLimit)
    <2>1. /\ attempts' = [attempts EXCEPT ![c] = @ + 1]
          /\ line' = Append(Without(c), c) /\ dead' = dead
      BY <1>2 DEF CountAttempt
    <2>2. QueueIs(QueuedNow \cup {c}) /\ QueuedNow \cup {c} = QueuedNow
      BY <2>1, QueueMoves DEF QueuedNow
    <2>3. attempts' \in [Cands -> 0..RetryLimit - 1]
      BY <1>0, <1>2, <2>1
    <2> QED BY <1>0, <2>1, <2>2, <2>3
  <1> QED BY <1>1, <1>2

LEMMA MarkErrorKeeps ==
  ASSUME Inv, NEW w \in Workers, MarkError(w)
  PROVE  Inv'
  <1> USE IncrementalConstants, TickFacts DEF MarkError, NextRow, readVars
  <1>0. /\ run[w].rows \in Seq(Cands) /\ run[w].rows # <<>>
        /\ Row(w) \in Cands /\ Tail(run[w].rows) \in Seq(Cands)
    BY DEF Inv, Shape, AtWork, Row
  <1> DEFINE c == Row(w)
  <1>1. /\ attempts' \in [Cands -> 0..RetryLimit - 1]
        /\ dead' \in [Cands -> Seq(Dispositions)]
        /\ \/ QueueIs(QueuedNow) /\ dead' = dead
           \/ QueueIs(QueuedNow \ {c}) /\ NewestOpen(c) /\ \A d \in Cands \ {c} : dead'[d] = dead[d]
    <2>1. CASE Queued(c)
      BY <1>0, <2>1, CountAttemptMoves
    <2>2. CASE ~Queued(c)
      BY <2>2, QueueSame DEF queueVars, Inv, Shape
    <2> QED BY <2>1, <2>2
  <1> HIDE DEF c
  <1>2. Shape' /\ AtWork'
    BY <1>0, <1>1 DEF Inv, Shape, AtWork, QueueIs
  <1>3. \A d \in Cands : Unread(d)' => (Unread(d) /\ dead'[d] = dead[d]) \/ NewestOpen(d)
    BY <1>1 DEF Inv, Shape, AtWork, QueueIs, QueuedNow, Unread, Enqueueing
  <1>4. ReadOrSlipped'
    BY ReadKept, IdleType DEF Inv, Shape
  <1> QED BY <1>1, <1>2, <1>3, <1>4, ForgottenKept DEF Inv, QueueIs

\* What a recorded disposition leaves of the dead letters.
LEMMA RecordMoves ==
  ASSUME Inv, NEW c \in Cands, NEW g \in DOMAIN dead[c], NEW d \in Dispositions, Record(c, g, d)
  PROVE  /\ dead' \in [Cands -> Seq(Dispositions)]
         /\ \A x \in Cands \ {c} : dead'[x] = dead[x]
         /\ Len(dead'[c]) = Len(dead[c]) /\ Len(dead[c]) \in Nat /\ Len(dead[c]) > 0
         /\ \A h \in 1 .. Len(dead[c]) : dead'[c][h] = IF h = g THEN d ELSE dead[c][h]
  <1>1. dead \in [Cands -> Seq(Dispositions)] /\ dead[c] \in Seq(Dispositions) /\ g \in 1 .. Len(dead[c])
    BY DEF Inv, Shape
  <1>2. dead' = [dead EXCEPT ![c] = [dead[c] EXCEPT ![g] = d]]
    BY DEF Record
  <1>3. /\ [dead[c] EXCEPT ![g] = d] \in Seq(Dispositions)
        /\ Len([dead[c] EXCEPT ![g] = d]) = Len(dead[c])
        /\ \A h \in 1 .. Len(dead[c]) : [dead[c] EXCEPT ![g] = d][h] = IF h = g THEN d ELSE dead[c][h]
    BY <1>1, ExceptSeq
  <1>4. dead'[c] = [dead[c] EXCEPT ![g] = d]
    BY <1>1, <1>2
  <1>5. dead' \in [Cands -> Seq(Dispositions)] /\ \A x \in Cands \ {c} : dead'[x] = dead[x]
    BY <1>1, <1>2, <1>3
  <1> QED BY <1>1, <1>3, <1>4, <1>5

LEMMA DisposeKeeps ==
  ASSUME Inv, NEW c \in Cands, NEW g \in DOMAIN dead[c], Dispose(c, g)
  PROVE  Inv'
  <1> USE IncrementalConstants, TickFacts DEF Dispose, Bucket, queueVars, readVars
  <1>0. /\ dead' \in [Cands -> Seq(Dispositions)]
        /\ \A x \in Cands \ {c} : dead'[x] = dead[x]
        /\ Len(dead'[c]) = Len(dead[c]) /\ Len(dead[c]) \in Nat /\ Len(dead[c]) > 0
        /\ \A h \in 1 .. Len(dead[c]) : dead'[c][h] = IF h = g THEN "DISPOSED" ELSE dead[c][h]
    BY RecordMoves DEF Dispositions
  <1>1. QueueIs(QueuedNow)
    BY QueueSame
  <1>2. Shape' /\ AtWork'
    BY <1>0, <1>1 DEF Inv, Shape, AtWork, QueueIs, Record
  <1>3. \A d \in Cands : Unread(d)' => (Unread(d) /\ dead'[d] = dead[d]) \/ NewestOpen(d)
    BY <1>0, <1>1 DEF Inv, Shape, QueueIs, QueuedNow, Unread, Enqueueing, ForgottenIsOpen, NewestOpen, Record
  <1>4. ReadOrSlipped'
    BY ReadKept DEF Record
  <1> QED BY <1>1, <1>2, <1>3, <1>4, ForgottenKept DEF Inv, QueueIs

LEMMA ResetCanaryKeeps ==
  ASSUME Inv, NEW c \in Cands, NEW g \in DOMAIN dead[c], ResetCanary(c, g)
  PROVE  Inv'
  <1> USE IncrementalConstants, TickFacts DEF ResetCanary, readVars
  <1>0. /\ dead' \in [Cands -> Seq(Dispositions)]
        /\ \A x \in Cands \ {c} : dead'[x] = dead[x]
        /\ Len(dead'[c]) = Len(dead[c]) /\ Len(dead[c]) \in Nat /\ Len(dead[c]) > 0
        /\ \A h \in 1 .. Len(dead[c]) : dead'[c][h] = IF h = g THEN "CANARY" ELSE dead[c][h]
    BY RecordMoves DEF Dispositions
  <1>1. QueueIs(QueuedNow \cup {c})
    BY QueueGrows
  <1>2. Shape' /\ AtWork'
    <2>1. UNCHANGED <<active, tick, readVars, dropped, enq, lock, run>>
      BY DEF Record
    <2>2. attempts' \in [Cands -> 0..RetryLimit - 1]
      BY DEF Inv, Shape
    <2> QED BY <1>0, <1>1, <2>1, <2>2 DEF Inv, Shape, AtWork, QueueIs
  <1>3. \A d \in Cands : Unread(d)' => (Unread(d) /\ dead'[d] = dead[d]) \/ NewestOpen(d)
    BY <1>0, <1>1 DEF Inv, Shape, QueueIs, QueuedNow, Unread, Enqueueing, ForgottenIsOpen, NewestOpen, Record
  <1>4. ReadOrSlipped'
    BY ReadKept DEF Record
  <1> QED BY <1>1, <1>2, <1>3, <1>4, ForgottenKept DEF Inv, QueueIs

LEMMA VerifyCanaryKeeps ==
  ASSUME Inv, NEW c \in Cands, NEW g \in DOMAIN dead[c], VerifyCanary(c, g)
  PROVE  Inv'
  <1> USE IncrementalConstants, TickFacts DEF VerifyCanary, queueVars, readVars
  <1>0. /\ dead' \in [Cands -> Seq(Dispositions)]
        /\ \A x \in Cands \ {c} : dead'[x] = dead[x]
        /\ Len(dead'[c]) = Len(dead[c]) /\ Len(dead[c]) \in Nat /\ Len(dead[c]) > 0
        /\ \A h \in 1 .. Len(dead[c]) : dead'[c][h] = IF h = g THEN "VERIFIED" ELSE dead[c][h]
    BY RecordMoves DEF Dispositions
  <1>1. QueueIs(QueuedNow)
    BY QueueSame
  <1>2. Shape' /\ AtWork'
    BY <1>0, <1>1 DEF Inv, Shape, AtWork, QueueIs, Record
  <1>3. \A d \in Cands : Unread(d)' => (Unread(d) /\ dead'[d] = dead[d]) \/ NewestOpen(d)
    BY <1>0, <1>1 DEF Inv, Shape, QueueIs, QueuedNow, Unread, Enqueueing, ForgottenIsOpen, NewestOpen, Record
  <1>4. ReadOrSlipped'
    BY ReadKept DEF Record
  <1> QED BY <1>1, <1>2, <1>3, <1>4, ForgottenKept DEF Inv, QueueIs

LEMMA RevokeKeeps ==
  ASSUME Inv, NEW c \in Cands, NEW g \in DOMAIN dead[c], Revoke(c, g)
  PROVE  Inv'
  <1> USE IncrementalConstants, TickFacts DEF Revoke, queueVars, readVars
  <1>0. /\ dead' \in [Cands -> Seq(Dispositions)]
        /\ \A x \in Cands \ {c} : dead'[x] = dead[x]
        /\ Len(dead'[c]) = Len(dead[c]) /\ Len(dead[c]) \in Nat /\ Len(dead[c]) > 0
        /\ \A h \in 1 .. Len(dead[c]) : dead'[c][h] = IF h = g THEN "OPEN" ELSE dead[c][h]
    BY RecordMoves DEF Dispositions
  <1>1. QueueIs(QueuedNow)
    BY QueueSame
  <1>2. Shape' /\ AtWork'
    BY <1>0, <1>1 DEF Inv, Shape, AtWork, QueueIs, Record
  <1>3. \A d \in Cands : Unread(d)' => (Unread(d) /\ dead'[d] = dead[d]) \/ NewestOpen(d)
    BY <1>0, <1>1 DEF Inv, Shape, QueueIs, QueuedNow, Unread, Enqueueing, ForgottenIsOpen, NewestOpen, Record
  <1>4. ReadOrSlipped'
    BY ReadKept DEF Record
  <1> QED BY <1>1, <1>2, <1>3, <1>4, ForgottenKept DEF Inv, QueueIs

-----------------------------------------------------------------------------
(* The theorems *)

LEMMA NextInv == Inv /\ [Next]_vars => Inv'
  <1> SUFFICES ASSUME Inv, [Next]_vars PROVE Inv'
    OBVIOUS
  <1>1. CASE EnqueueStep
    BY <1>1, ApplyTickKeeps, BackfillKeeps, CheckKeeps, InsertKeeps, EnqueueFailsKeeps DEF EnqueueStep
  <1>2. CASE \E c \in Cands : Close(c)
    BY <1>2, CloseKeeps
  <1>3. ASSUME NEW w \in Workers, WorkerStep(w) PROVE Inv'
    BY <1>3, StartBatchKeeps, SkipClosedKeeps, RefreshKeeps, EvaluateKeeps, EvaluateFailsKeeps,
       MarkErrorKeeps, MarkErrorRaisesKeeps, EndBatchKeeps DEF WorkerStep
  <1>4. ASSUME NEW w \in Workers, LeaseLost(w) PROVE Inv'
    BY <1>4, LeaseLostKeeps
  <1>5. CASE OperatorStep
    BY <1>5, DisposeKeeps, ResetCanaryKeeps, VerifyCanaryKeeps, RevokeKeeps DEF OperatorStep
  <1>6. CASE UNCHANGED vars
    BY <1>6 DEF vars, Inv, Shape, OneRowEach, AtWork, ReadOrSlipped, Row, ForgottenIsOpen, Unread, Queued, Enqueueing
  <1> QED BY <1>1, <1>2, <1>3, <1>4, <1>5, <1>6 DEF Next

LEMMA Invariance == Spec => []Inv
  BY InitInv, NextInv, PTL DEF Spec

\* A candidate never has two rows in incremental_evaluation_queue, no row outlives its
\* retry limit, and every dead letter has a disposition of the ledger.
THEOREM TypeCorrect == Spec => []TypeOK
  <1>1. Inv => TypeOK
    <2> SUFFICES ASSUME Inv PROVE TypeOK
      OBVIOUS
    <2>1. DOMAIN line = 1 .. Len(line) /\ \A i \in 1 .. Len(line) : line[i] \in Cands
      BY DEF Inv, Shape
    <2>2. \A c \in Cands : \A g \in DOMAIN dead[c] : dead[c][g] \in Dispositions
      BY DEF Inv, Shape
    <2>3. IsInjective(line)
      BY <2>1 DEF Inv, OneRowEach, IsInjective
    <2> QED BY <2>1, <2>2, <2>3 DEF Inv, Shape, TypeOK, Dispositions, Ticks
  <1> QED BY <1>1, Invariance, PTL

\* The latest tick of a live candidate is in the context of an evaluation, or the candidate is
\* queued, being enqueued, blocked by a dead letter, or the enqueue of that tick was refused,
\* or the tick came between a refresh and its evaluation, which has read its price only.
THEOREM NothingForgotten == Spec => []NoTickForgotten
  <1>1. Inv => NoTickForgotten
    <2> SUFFICES ASSUME Inv, NEW c \in Cands, active[c], tick[c] > judged[c], dropped[c] # tick[c],
                        ~(slipped[c] = tick[c] /\ priced[c] = tick[c]), ~Queued(c), ~Enqueueing(c)
                 PROVE  Blocked(c)
      BY DEF NoTickForgotten
    <2>1. dead[c] \in Seq(Dispositions) /\ Len(dead[c]) > 0 /\ dead[c][Len(dead[c])] = "OPEN"
      BY DEF Inv, Shape, ForgottenIsOpen, Unread
    <2>2. Len(dead[c]) \in DOMAIN dead[c] /\ Bucket(c, Len(dead[c])) = "ACTIVE_UNRESOLVED"
      BY <2>1 DEF Bucket
    <2>3. "ACTIVE_UNRESOLVED" \in Blockers(c)
      BY <2>2 DEF Blockers
    <2> QED BY <2>3 DEF Blocked
  <1> QED BY <1>1, Invariance, PTL
=============================================================================
