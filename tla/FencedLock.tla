------------------------------ MODULE FencedLock ------------------------------
(***************************************************************************)
(* What runtime_execution_lock promises its users: at most one holder, a    *)
(* new epoch for every grant, and writes by the holder only, so that the    *)
(* epochs of the writes never decrease.  A lock may be taken from its       *)
(* holder at any time: the promise is about writes, not about possession.   *)
(***************************************************************************)
EXTENDS Naturals

CONSTANTS Clients, None

VARIABLES
  holder,   \* the client that has the lock, or None
  epoch,    \* number of grants so far
  written   \* epoch of the last write, 0 before the first

vars == <<holder, epoch, written>>

Init ==
  /\ holder = None
  /\ epoch = 0
  /\ written = 0

Grant(c) ==
  /\ holder' = c
  /\ epoch' = epoch + 1
  /\ UNCHANGED written

Free ==
  /\ holder' = None
  /\ UNCHANGED <<epoch, written>>

Write(c) ==
  /\ holder = c
  /\ written' = epoch
  /\ UNCHANGED <<holder, epoch>>

Next == Free \/ \E c \in Clients : Grant(c) \/ Write(c)

Spec == Init /\ [][Next]_vars

=============================================================================
