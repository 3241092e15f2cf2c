---------------------- MODULE EvaluationRunGuardProofs ----------------------
(***************************************************************************)
(* The run guard implements FencedLock for any number of threads, processes, *)
(* acquisitions and crashes, and whatever os.kill says of other processes;   *)
(* where it tells the truth of a run's process, that run keeps the lock.     *)
(***************************************************************************)
EXTENDS EvaluationRunGuard, TLAPS

\* A run is in a write transaction when it has begun one, and still has the lock
\* when the fence was checked in it: whoever takes or clears a row writes, too.
TxnHasRow ==
  \A r \in Runs :
    /\ pc[r] \in {"begun", "txn"} => writer = r
    /\ pc[r] = "txn" => Holds(r, lease[r])

\* A row has the last token, and none is marked lost.
RowIsLast == row.owner # None => row.token = lastToken /\ row.token \notin lost

\* The token of a heartbeat is in no other run's row.
BeatOwner ==
  \A b \in beats : row.owner # None /\ row.token = b.token => row.owner = b.run

\* Threads end with their process.
DownIsDead == \A r \in Runs : ~up[ProcOf[r]] => pc[r] = "dead"

Inv == TypeOK /\ TxnHasRow /\ RowIsLast /\ BeatOwner /\ DownIsDead /\ RunHasLock

\* What a renewal does to the row.
LEMMA RenewedRow ==
  ASSUME TypeOK
  PROVE  /\ [row EXCEPT !.expired = FALSE] \in
              [owner : Runs \cup {None}, token : 0..lastToken, expired : BOOLEAN]
         /\ [row EXCEPT !.expired = TRUE] \in
              [owner : Runs \cup {None}, token : 0..lastToken, expired : BOOLEAN]
         /\ [row EXCEPT !.expired = FALSE].owner = row.owner
         /\ [row EXCEPT !.expired = FALSE].token = row.token
         /\ [row EXCEPT !.expired = TRUE].owner = row.owner
         /\ [row EXCEPT !.expired = TRUE].token = row.token
BY DEF TypeOK

\* Stopping heartbeats keeps whose they are.
LEMMA StoppedBeats ==
  ASSUME TypeOK, NEW r \in Runs
  PROVE  /\ StopHeartbeat(r) \subseteq [run : Runs, token : 1..lastToken, stop : BOOLEAN]
         /\ \A b \in StopHeartbeat(r) : \E c \in beats : b.run = c.run /\ b.token = c.token
<1> SUFFICES ASSUME NEW b \in StopHeartbeat(r)
             PROVE  /\ b \in [run : Runs, token : 1..lastToken, stop : BOOLEAN]
                    /\ \E c \in beats : b.run = c.run /\ b.token = c.token
  OBVIOUS
<1>1. PICK c \in beats : b = IF c.run = r THEN [c EXCEPT !.stop = TRUE] ELSE c
  BY DEF StopHeartbeat
<1>2. c \in [run : Runs, token : 1..lastToken, stop : BOOLEAN]
  BY DEF TypeOK
<1> QED  BY <1>1, <1>2

\* Steps of one run that leave the lock row's owner and token, the leases and the
\* processes alone.
LEMMA PlainStep ==
  ASSUME Inv, NEW r \in Runs, NEW place \in Places,
         pc' = [pc EXCEPT ![r] = place],
         row'.owner = row.owner, row'.token = row.token,
         row' \in [owner : Runs \cup {None}, token : 0..lastToken, expired : BOOLEAN],
         UNCHANGED <<lastToken, lease, beats, lost, up, crashes>>,
         writer' \in Runs \cup {None}, writer' = writer \/ writer \in {None, r},
         written' \in 0..lastToken, deleted' \in 0..lastToken,
         place \in {"begun", "txn"} => writer' = r,
         place = "txn" => Holds(r, lease[r]),
         place \in InRun => pc[r] \in InRun,
         pc[r] # "dead"
  PROVE  Inv'
<1>1. TypeOK'
  BY DEF Inv, TypeOK
<1>2. TxnHasRow'
  <2> SUFFICES ASSUME NEW q \in Runs
               PROVE  /\ pc'[q] \in {"begun", "txn"} => writer' = q
                      /\ pc'[q] = "txn" => Holds(q, lease[q])'
    BY DEF TxnHasRow
  <2>1. CASE q = r
    BY <2>1 DEF Inv, TypeOK, Holds
  <2>2. CASE q # r
    <3>1. pc'[q] = pc[q]
      BY <2>2 DEF Inv, TypeOK
    <3>2. pc[q] \in {"begun", "txn"} => writer = q /\ writer' = writer
      BY <2>2, GuardConstants DEF Inv, TxnHasRow
    <3> QED  BY <3>1, <3>2 DEF Inv, TxnHasRow, Holds
  <2> QED  BY <2>1, <2>2
<1>3. RowIsLast' /\ BeatOwner'
  BY DEF Inv, RowIsLast, BeatOwner
<1>4. DownIsDead'
  BY DEF Inv, TypeOK, DownIsDead
<1>5. RunHasLock'
  BY DEF Inv, TypeOK, RunHasLock, Holds
<1> QED  BY <1>1, <1>2, <1>3, <1>4, <1>5 DEF Inv

\* A run ends: its lease is forgotten and its heartbeat told to stop.
LEMMA LeavingStep ==
  ASSUME Inv, NEW r \in Runs, pc[r] \in {"ended", "current", "failed"},
         pc' = [pc EXCEPT ![r] = "idle"],
         lease' = [lease EXCEPT ![r] = 0],
         beats' = StopHeartbeat(r),
         row' = row \/ (row' = NoRow /\ writer = None),
         row' = NoRow => row.owner \in {r, None},
         UNCHANGED <<lastToken, writer, lost, written, deleted, up, crashes>>
  PROVE  Inv'
<1>1. TypeOK'
  <2>1. beats' \subseteq [run : Runs, token : 1..lastToken, stop : BOOLEAN]
    BY StoppedBeats DEF Inv
  <2>2. row' \in [owner : Runs \cup {None}, token : 0..lastToken, expired : BOOLEAN]
    <3>1. lastToken \in Nat /\ 0 \in 0..lastToken
      BY DEF Inv, TypeOK
    <3>2. NoRow \in [owner : Runs \cup {None}, token : 0..lastToken, expired : BOOLEAN]
      BY <3>1 DEF NoRow
    <3> QED  BY <3>2 DEF Inv, TypeOK
  <2>3. pc' \in [Runs -> Places] /\ lease' \in [Runs -> 0..lastToken]
    BY DEF Inv, TypeOK, Places
  <2> QED  BY <2>1, <2>2, <2>3 DEF Inv, TypeOK
<1>2. TxnHasRow'
  <2> SUFFICES ASSUME NEW q \in Runs
               PROVE  /\ pc'[q] \in {"begun", "txn"} => writer' = q
                      /\ pc'[q] = "txn" => Holds(q, lease[q])'
    BY DEF TxnHasRow
  <2>1. CASE q = r
    BY <2>1 DEF Inv, TypeOK
  <2>2. CASE q # r
    <3>1. pc'[q] = pc[q] /\ lease'[q] = lease[q]
      BY <2>2 DEF Inv, TypeOK
    <3>2. pc[q] \in {"begun", "txn"} => writer = q /\ row' = row
      BY GuardConstants DEF Inv, TxnHasRow
    <3> QED  BY <3>1, <3>2 DEF Inv, TxnHasRow, Holds
  <2> QED  BY <2>1, <2>2
<1>3. RowIsLast'
  BY DEF Inv, RowIsLast, NoRow
<1>4. BeatOwner'
  <2>1. \A b \in beats' : \E c \in beats : b.run = c.run /\ b.token = c.token
    BY StoppedBeats DEF Inv
  <2> QED  BY <2>1 DEF Inv, BeatOwner, NoRow
<1>5. DownIsDead'
  BY DEF Inv, TypeOK, DownIsDead
<1>6. RunHasLock'
  <2> SUFFICES ASSUME NEW q \in Runs, ProcOf[q] \in Trusted, pc'[q] \in InRun
               PROVE  Holds(q, lease[q])'
    BY DEF RunHasLock
  <2>1. q # r /\ pc'[q] = pc[q] /\ lease'[q] = lease[q]
    BY DEF Inv, TypeOK, InRun
  <2>2. Holds(q, lease[q])
    BY <2>1 DEF Inv, RunHasLock
  <2>3. row' = row
    BY <2>1, <2>2, GuardConstants DEF Holds
  <2> QED  BY <2>1, <2>2, <2>3 DEF Holds
<1> QED  BY <1>1, <1>2, <1>3, <1>4, <1>5, <1>6 DEF Inv

\* A row that may be taken or cleared is not that of a run under way, if os.kill
\* tells the truth of its owner's process.
LEMMA TakenRowIsIdle ==
  ASSUME Inv, NEW p \in Procs, row.owner # None, ProcOf[row.owner] \in Trusted,
         MayLookDead(p, row.owner)
  PROVE  pc[row.owner] \notin InRun
<1>1. row.owner \in Runs
  BY DEF Inv, TypeOK
<1> QED  BY <1>1, GuardConstants DEF MayLookDead, ThreadAlive, Inv, TypeOK, DownIsDead, InRun

\* Taking the lock: the new token is new, and no run under way loses its row.
LEMMA AcquireStep ==
  ASSUME Inv, NEW r \in Runs, Acquire(r)
  PROVE  Inv'
<1> USE DEF Acquire, Goto
<1>0. /\ lastToken \in Nat /\ lastToken' \in Nat
      /\ row' = [owner |-> r, token |-> lastToken', expired |-> FALSE]
      /\ row'.owner = r /\ row'.token = lastToken'
      /\ 0..lastToken \subseteq 0..lastToken' /\ 1..lastToken \subseteq 1..lastToken'
      /\ lastToken' \in 1..lastToken' /\ lastToken' \notin 0..lastToken
  BY DEF Inv, TypeOK
<1>1. TypeOK'
  <2>1. row' \in [owner : Runs \cup {None}, token : 0..lastToken', expired : BOOLEAN]
    BY <1>0
  <2>2. pc' \in [Runs -> Places]
    BY DEF Inv, TypeOK, Places, InRun
  <2>3. lease' \in [Runs -> 0..lastToken']
    BY <1>0 DEF Inv, TypeOK
  <2>4. beats' \subseteq [run : Runs, token : 1..lastToken', stop : BOOLEAN]
    <3>1. [run : Runs, token : 1..lastToken, stop : BOOLEAN]
            \subseteq [run : Runs, token : 1..lastToken', stop : BOOLEAN]
      BY <1>0
    <3>2. [run |-> r, token |-> lastToken + 1, stop |-> FALSE]
            \in [run : Runs, token : 1..lastToken', stop : BOOLEAN]
      BY <1>0
    <3> QED  BY <3>1, <3>2 DEF Inv, TypeOK
  <2>5. lost' \subseteq 1..lastToken' /\ written' \in 0..lastToken' /\ deleted' \in 0..lastToken'
    BY <1>0 DEF Inv, TypeOK
  <2> QED  BY <1>0, <2>1, <2>2, <2>3, <2>4, <2>5 DEF Inv, TypeOK
<1>2. TxnHasRow'
  BY <1>0, GuardConstants DEF Inv, TypeOK, TxnHasRow
<1>3. RowIsLast'
  BY <1>0 DEF Inv, TypeOK, RowIsLast
<1>4. BeatOwner'
  BY <1>0 DEF Inv, TypeOK, BeatOwner
<1>5. DownIsDead'
  BY DEF Inv, TypeOK, DownIsDead
<1>6. RunHasLock'
  <2> SUFFICES ASSUME NEW q \in Runs, ProcOf[q] \in Trusted, pc'[q] \in InRun
               PROVE  Holds(q, lease[q])'
    BY DEF RunHasLock
  <2>1. CASE q = r
    BY <2>1, <1>0 DEF Inv, TypeOK, Holds
  <2>2. CASE q # r
    <3>1. pc[q] \in InRun /\ row.owner = q
      BY <2>2 DEF Inv, TypeOK, RunHasLock, Holds
    <3>2. row.owner # None /\ MayLookDead(ProcOf[r], row.owner)
      BY <3>1, GuardConstants DEF MayTake
    <3> QED  BY <3>1, <3>2, TakenRowIsIdle, GuardConstants
  <2> QED  BY <2>1, <2>2
<1> QED  BY <1>1, <1>2, <1>3, <1>4, <1>5, <1>6 DEF Inv

\* A process dies: its runs and heartbeats are gone, the row stays.
LEMMA CrashStep ==
  ASSUME Inv, NEW p \in Procs, Crash(p)
  PROVE  Inv'
<1> USE DEF Crash
<1>1. TypeOK'
  <2>1. pc' \in [Runs -> Places] /\ lease' \in [Runs -> 0..lastToken]
    BY DEF Inv, TypeOK, Places
  <2>2. up' \in [Procs -> BOOLEAN] /\ crashes' \in Nat /\ writer' \in Runs \cup {None}
    BY DEF Inv, TypeOK
  <2> QED  BY <2>1, <2>2 DEF Inv, TypeOK
<1>2. TxnHasRow'
  <2> SUFFICES ASSUME NEW q \in Runs
               PROVE  /\ pc'[q] \in {"begun", "txn"} => writer' = q
                      /\ pc'[q] = "txn" => Holds(q, lease[q])'
    BY DEF TxnHasRow
  <2>1. CASE ProcOf[q] = p
    BY <2>1
  <2>2. CASE ProcOf[q] # p
    <3>1. pc'[q] = pc[q] /\ lease'[q] = lease[q] /\ row' = row
      BY <2>2
    <3>2. pc[q] \in {"begun", "txn"} => writer = q /\ writer' = q
      BY <2>2 DEF Inv, TxnHasRow
    <3> QED  BY <3>1, <3>2 DEF Inv, TxnHasRow, Holds
  <2> QED  BY <2>1, <2>2
<1>3. RowIsLast' /\ BeatOwner'
  BY DEF Inv, RowIsLast, BeatOwner
<1>4. DownIsDead'
  BY GuardConstants DEF Inv, TypeOK, DownIsDead
<1>5. RunHasLock'
  BY DEF Inv, RunHasLock, InRun, Holds
<1> QED  BY <1>1, <1>2, <1>3, <1>4, <1>5 DEF Inv

\* A process starts: what its cleanup deletes is not the row of a run under way,
\* if os.kill tells the truth of its process.
LEMMA StartStep ==
  ASSUME Inv, NEW p \in Procs, Start(p)
  PROVE  Inv'
<1> USE DEF Start
<1>0. row' = row \/ (row' = NoRow /\ Clears(p))
  OBVIOUS
<1>1. TypeOK'
  <2>1. lastToken \in Nat /\ 0 \in 0..lastToken
    BY DEF Inv, TypeOK
  <2>2. NoRow \in [owner : Runs \cup {None}, token : 0..lastToken, expired : BOOLEAN]
    BY <2>1 DEF NoRow
  <2>3. pc' \in [Runs -> Places] /\ up' \in [Procs -> BOOLEAN]
    BY DEF Inv, TypeOK, Places
  <2> QED  BY <1>0, <2>2, <2>3 DEF Inv, TypeOK
<1>2. TxnHasRow'
  BY GuardConstants DEF Inv, TxnHasRow
<1>3. RowIsLast' /\ BeatOwner'
  BY <1>0 DEF Inv, RowIsLast, BeatOwner, NoRow
<1>4. DownIsDead'
  BY GuardConstants DEF Inv, TypeOK, DownIsDead
<1>5. RunHasLock'
  <2> SUFFICES ASSUME NEW q \in Runs, ProcOf[q] \in Trusted, pc'[q] \in InRun
               PROVE  Holds(q, lease[q])'
    BY DEF RunHasLock
  <2>1. ProcOf[q] # p /\ pc'[q] = pc[q]
    BY DEF InRun
  <2>2. Holds(q, lease[q])
    BY <2>1 DEF Inv, RunHasLock
  <2>3. ~Clears(p)
    BY <2>1, <2>2, TakenRowIsIdle DEF Clears, Holds
  <2> QED  BY <1>0, <2>2, <2>3 DEF Holds
<1> QED  BY <1>1, <1>2, <1>3, <1>4, <1>5 DEF Inv

\* Heartbeats and the passing of time change neither the owner nor the token of the
\* row, and mark a lease lost only if it is not in the row.
LEMMA ClockStep ==
  ASSUME Inv, Expire \/ \E b \in beats : Heartbeat(b) \/ HeartbeatEnds(b)
  PROVE  Inv'
<1>1. CASE Expire
  <2>1. /\ row' \in [owner : Runs \cup {None}, token : 0..lastToken, expired : BOOLEAN]
        /\ row'.owner = row.owner /\ row'.token = row.token
    BY <1>1, RenewedRow DEF Expire, Inv
  <2>2. TypeOK'
    BY <1>1, <2>1 DEF Expire, Inv, TypeOK
  <2> QED
    BY <1>1, <2>1, <2>2 DEF Expire, Inv, TxnHasRow, RowIsLast, BeatOwner, DownIsDead, RunHasLock, Holds
<1>2. ASSUME NEW b \in beats, Heartbeat(b) \/ HeartbeatEnds(b)
      PROVE  Inv'
  <2>1. /\ row' \in [owner : Runs \cup {None}, token : 0..lastToken, expired : BOOLEAN]
        /\ row'.owner = row.owner /\ row'.token = row.token
    BY <1>2, RenewedRow DEF Heartbeat, HeartbeatEnds, Inv, TypeOK
  <2>2. beats' \subseteq beats /\ lost' \subseteq lost \cup {b.token}
    BY <1>2 DEF Heartbeat, HeartbeatEnds
  <2>3. UNCHANGED <<lastToken, writer, pc, lease, written, deleted, up, crashes>>
    BY <1>2 DEF Heartbeat, HeartbeatEnds
  <2>4. b \in [run : Runs, token : 1..lastToken, stop : BOOLEAN]
    BY DEF Inv, TypeOK
  <2>5. TypeOK'
    BY <2>1, <2>2, <2>3, <2>4 DEF Inv, TypeOK
  <2>6. RowIsLast'
    <3>1. row.owner # None /\ b.token \in lost' /\ b.token \notin lost => ~Holds(b.run, b.token)
      BY <1>2 DEF Heartbeat, HeartbeatEnds
    <3>2. row.owner # None /\ row.token = b.token => Holds(b.run, b.token)
      BY DEF Inv, BeatOwner, Holds
    <3> QED  BY <2>1, <2>2, <2>3, <3>1, <3>2 DEF Inv, RowIsLast
  <2> QED
    BY <2>1, <2>2, <2>3, <2>5, <2>6 DEF Inv, TxnHasRow, BeatOwner, DownIsDead, RunHasLock, Holds
<1> QED  BY <1>1, <1>2

\* Every action of a run keeps the invariant.
LEMMA RunStep ==
  ASSUME Inv, NEW r \in Runs,
         \/ Acquire(r) \/ Begin(r) \/ Fence(r) \/ FenceLost(r) \/ Commit(r) \/ Rollback(r)
         \/ CheckCandidate(r) \/ DeleteClosed(r) \/ KeepCandidate(r)
         \/ EndBody(r) \/ CheckAtEnd(r) \/ Release(r) \/ ReleaseFails(r) \/ ThreadTurn(r)
  PROVE  Inv'
<1> USE DEF Goto
<1>0. /\ row \in [owner : Runs \cup {None}, token : 0..lastToken, expired : BOOLEAN]
      /\ lease[r] \in 0..lastToken /\ written \in 0..lastToken /\ deleted \in 0..lastToken
      /\ writer \in Runs \cup {None} /\ TypeOK
  BY DEF Inv, TypeOK
<1>1. CASE Acquire(r)
  BY <1>1, AcquireStep
<1>2. CASE Begin(r)
  BY <1>0, <1>2, PlainStep DEF Begin, Places, InRun
<1>3. CASE Fence(r)
  <2>1. writer = r
    BY <1>3 DEF Fence, Inv, TxnHasRow
  <2> QED  BY <1>0, <1>3, <2>1, PlainStep DEF Fence, Current, Places, InRun
<1>4. CASE FenceLost(r)
  <2>1. writer = r
    BY <1>4 DEF FenceLost, Inv, TxnHasRow
  <2> QED  BY <1>0, <1>4, <2>1, PlainStep DEF FenceLost, Places, InRun
<1>5. CASE Commit(r)
  <2>1. writer = r
    BY <1>5 DEF Commit, Inv, TxnHasRow
  <2> QED  BY <1>0, <1>5, <2>1, PlainStep, RenewedRow DEF Commit, Places, InRun
<1>6. CASE Rollback(r)
  <2>1. writer = r
    BY <1>6 DEF Rollback, Inv, TxnHasRow
  <2> QED  BY <1>0, <1>6, <2>1, PlainStep DEF Rollback, Places, InRun
<1>7. CASE CheckCandidate(r)
  BY <1>0, <1>7, PlainStep, RenewedRow DEF CheckCandidate, Places, InRun
<1>8. CASE DeleteClosed(r)
  BY <1>0, <1>8, PlainStep DEF DeleteClosed, Places, InRun
<1>9. CASE KeepCandidate(r)
  BY <1>0, <1>9, PlainStep DEF KeepCandidate, Places, InRun
<1>10. CASE EndBody(r)
  BY <1>0, <1>10, PlainStep DEF EndBody, Places, InRun
<1>11. CASE ThreadTurn(r)
  BY <1>0, <1>11, PlainStep DEF ThreadTurn, Places, InRun
<1>12. CASE Release(r)
  <2>1. row' = row \/ (row' = NoRow /\ writer = None)
    BY <1>12 DEF Release
  <2>2. row' = NoRow => row.owner \in {r, None}
    BY <1>12 DEF Release, Holds, NoRow
  <2>3. pc[r] \in {"ended", "current", "failed"}
    BY <1>12 DEF Release
  <2> QED  BY <1>12, <2>1, <2>2, <2>3, LeavingStep DEF Release
<1>13. CASE ReleaseFails(r)
  <2>1. row' = row /\ (row' = NoRow => row.owner \in {r, None})
    BY <1>13 DEF ReleaseFails, NoRow
  <2>2. pc[r] \in {"ended", "current", "failed"}
    BY <1>13 DEF ReleaseFails
  <2> QED  BY <1>13, <2>1, <2>2, LeavingStep DEF ReleaseFails
<1>14. CASE CheckAtEnd(r)
  <2>1. CASE ~Current(r)
    BY <1>14, <2>1, LeavingStep DEF CheckAtEnd, NoRow
  <2>2. CASE Current(r)
    <3> DEFINE place == "current"
    <3>1. pc' = [pc EXCEPT ![r] = place] /\ UNCHANGED <<row, lastToken, writer, lease, lost,
                                                   written, deleted, up, crashes>>
      BY <1>14, <2>2 DEF CheckAtEnd
    <3>2. \A b \in beats' : \E c \in beats : b.run = c.run /\ b.token = c.token
      BY <1>14, StoppedBeats DEF CheckAtEnd, Inv
    <3>3. beats' \subseteq [run : Runs, token : 1..lastToken, stop : BOOLEAN]
      BY <1>14, StoppedBeats DEF CheckAtEnd, Inv
    <3>4. TypeOK'
      BY <3>1, <3>3 DEF Inv, TypeOK, Places, InRun
    <3>5. TxnHasRow' /\ DownIsDead' /\ RunHasLock'
      BY <1>14, <3>1 DEF CheckAtEnd, Inv, TypeOK, TxnHasRow, DownIsDead, RunHasLock, InRun, Holds
    <3>6. RowIsLast' /\ BeatOwner'
      BY <3>1, <3>2 DEF Inv, RowIsLast, BeatOwner
    <3> QED  BY <3>4, <3>5, <3>6 DEF Inv
  <2> QED  BY <2>1, <2>2
<1> QED
  BY <1>1, <1>2, <1>3, <1>4, <1>5, <1>6, <1>7, <1>8, <1>9, <1>10, <1>11, <1>12, <1>13, <1>14

\* Inv is inductive.
THEOREM GuardInvariant == Spec => []Inv
<1>1. Init => Inv
  <2> SUFFICES ASSUME Init PROVE Inv
    OBVIOUS
  <2>1. 0 \in 0..0 /\ NoRow \in [owner : Runs \cup {None}, token : 0..0, expired : BOOLEAN]
    BY DEF NoRow
  <2>2. TypeOK
    BY <2>1 DEF Init, TypeOK, Places
  <2> QED
    BY <2>2, GuardConstants DEF Init, Inv, TxnHasRow, RowIsLast, BeatOwner, DownIsDead, RunHasLock, NoRow, InRun
<1>2. Inv /\ [Next]_vars => Inv'
  <2> SUFFICES ASSUME Inv, [Next]_vars PROVE Inv'
    OBVIOUS
  <2>1. CASE UNCHANGED vars
    BY <2>1 DEF vars, Inv, TypeOK, TxnHasRow, RowIsLast, BeatOwner, DownIsDead, RunHasLock, Holds
  <2>2. CASE Next
    BY <2>2, RunStep, ClockStep, CrashStep, StartStep DEF Next
  <2> QED  BY <2>1, <2>2
<1> QED  BY <1>1, <1>2, PTL DEF Spec

\* The state of the guard is always well typed.
THEOREM GuardTypeCorrect == Spec => []TypeOK
<1>1. Inv => TypeOK
  BY DEF Inv
<1> QED  BY <1>1, GuardInvariant, PTL

\* A run that is not over has the lock, if os.kill tells the truth of its process.
THEOREM LiveRunHasLock == Spec => []RunHasLock
<1>1. Inv => RunHasLock
  BY DEF Inv
<1> QED  BY <1>1, GuardInvariant, PTL

\* A lease that is marked lost is not the one in the row.
THEOREM LostIsGone == Spec => []LostLeaseIsGone
<1>1. Inv => LostLeaseIsGone
  BY DEF Inv, RowIsLast, LostLeaseIsGone
<1> QED  BY <1>1, GuardInvariant, PTL

\* What a step does to what FencedLock sees: it takes the lock with a new token,
\* frees it, writes as its holder under the last token, or changes nothing.
LEMMA StepIsFenced ==
  ASSUME Inv, [Next]_vars
  PROVE  [Lock!Next]_(Lock!vars)
<1> USE DEF Lock!Next, Lock!vars, Lock!Grant, Lock!Free, Lock!Write, Goto
<1>1. CASE UNCHANGED vars
  BY <1>1 DEF vars
<1>2. ASSUME NEW r \in Runs, Acquire(r)
      PROVE  Lock!Grant(r)
  BY <1>2 DEF Acquire
<1>3. ASSUME NEW r \in Runs, Commit(r)
      PROVE  Lock!Write(r)
  <2>1. Holds(r, lease[r]) /\ row.owner = r
    BY <1>3 DEF Commit, Inv, TxnHasRow, Holds
  <2>2. lease[r] = lastToken
    BY <2>1, GuardConstants DEF Holds, Inv, RowIsLast
  <2>3. row'.owner = row.owner
    BY <1>3, RenewedRow DEF Commit, Inv
  <2> QED  BY <1>3, <2>1, <2>2, <2>3 DEF Commit
<1>4. ASSUME NEW r \in Runs, Release(r) \/ ReleaseFails(r)
      PROVE  Lock!Free \/ UNCHANGED Lock!vars
  BY <1>4 DEF Release, ReleaseFails, NoRow
<1>5. ASSUME NEW p \in Procs, Start(p)
      PROVE  Lock!Free \/ UNCHANGED Lock!vars
  BY <1>5 DEF Start, NoRow
<1>6. ASSUME NEW p \in Procs, Crash(p)
      PROVE  UNCHANGED Lock!vars
  BY <1>6 DEF Crash
<1>7. ASSUME NEW r \in Runs,
             \/ Begin(r) \/ Fence(r) \/ FenceLost(r) \/ Rollback(r) \/ CheckCandidate(r)
             \/ DeleteClosed(r) \/ KeepCandidate(r) \/ EndBody(r) \/ CheckAtEnd(r) \/ ThreadTurn(r)
      PROVE  UNCHANGED Lock!vars
  BY <1>7, RenewedRow
     DEF Inv, Begin, Fence, FenceLost, Rollback, CheckCandidate, DeleteClosed, KeepCandidate,
         EndBody, CheckAtEnd, ThreadTurn
<1>8. ASSUME Expire \/ \E b \in beats : Heartbeat(b) \/ HeartbeatEnds(b)
      PROVE  UNCHANGED Lock!vars
  BY <1>8, RenewedRow DEF Inv, Expire, Heartbeat, HeartbeatEnds
<1> QED
  BY <1>1, <1>2, <1>3, <1>4, <1>5, <1>6, <1>7, <1>8 DEF Next

\* The run guard implements FencedLock: it is the promise that the code which
\* writes inside immediate_transaction relies on.
THEOREM GuardIsFenced == Spec => Fenced
<1>1. Init => Lock!Init
  BY DEF Init, Lock!Init, NoRow
<1>2. Inv /\ [Next]_vars => [Lock!Next]_(Lock!vars)
  BY StepIsFenced
<1> QED  BY <1>1, <1>2, GuardInvariant, PTL DEF Spec, Fenced, Lock!Spec

\* The tokens of the committed transactions never decrease.
THEOREM GuardWritesInOrder == Spec => WritesInTokenOrder
<1>1. Inv /\ [Next]_vars => [written' >= written]_vars
  <2> SUFFICES ASSUME Inv, [Next]_vars PROVE written' >= written
    OBVIOUS
  <2>1. written' \in {written, lastToken}
    BY StepIsFenced DEF Lock!Next, Lock!vars, Lock!Grant, Lock!Free, Lock!Write
  <2> QED  BY <2>1 DEF Inv, TypeOK
<1> QED  BY <1>1, GuardInvariant, PTL DEF Spec, WritesInTokenOrder

\* A queue row is deleted by the holder of the lock, although the deletion is not in the
\* transaction of the fence check, if os.kill tells the truth of the run's process.
THEOREM GuardDeletesFenced == Spec => DeletesAreFenced
<1> DEFINE Held(r) == ProcOf[r] \in Trusted /\ pc[r] = "queue" /\ deleted' # deleted /\ pc'[r] # pc[r]
                        => row.owner = r /\ deleted' = row.token
<1>1. Inv /\ [Next]_vars => [\A r \in Runs : Held(r)]_vars
  <2> SUFFICES ASSUME Inv, [Next]_vars, NEW r \in Runs, ProcOf[r] \in Trusted,
                      pc[r] = "queue", deleted' # deleted, pc'[r] # pc[r]
               PROVE  row.owner = r /\ deleted' = row.token
    OBVIOUS
  <2>1. PICK q \in Runs : DeleteClosed(q)
    BY DEF Next, vars, Acquire, Begin, Fence, FenceLost, Commit, Rollback, CheckCandidate,
           KeepCandidate, EndBody, CheckAtEnd, Release, ReleaseFails, ThreadTurn,
           Heartbeat, HeartbeatEnds, Expire, Crash, Start
  <2>2. q = r
    BY <2>1 DEF DeleteClosed, Goto, Inv, TypeOK
  <2>3. Holds(r, lease[r])
    BY DEF Inv, RunHasLock, InRun
  <2> QED  BY <2>1, <2>2, <2>3 DEF DeleteClosed, Holds
<1> QED  BY <1>1, GuardInvariant, PTL DEF Spec, DeletesAreFenced
=============================================================================
