--------------------------- MODULE MCLifecycleInbox ---------------------------
(* Instances of LifecycleInbox for TLC. *)
EXTENDS LifecycleInbox

CONSTANTS w1, w2
=============================================================================
