------------------------- MODULE MCBoundaryResolution -------------------------
(* BoundaryResolution with one order in doubt and two operators for TLC. *)
EXTENDS BoundaryResolution, TLC

CONSTANTS c1, o1, o2

Symmetry == Permutations(Operators)
=============================================================================
