--------------------------- MODULE MCGatewayOrders ---------------------------
(* Small instances of GatewayOrders for TLC. *)
EXTENDS GatewayOrders

CONSTANTS s1, s2, x1, k1

\* The send_order commands share an idempotency key.
SameKey == [c \in Commands |-> IF c \in SendOrders THEN k1 ELSE c]

\* Every command has a key of its own.
OwnKey == [c \in Commands |-> c]

=============================================================================
