----------------------------- MODULE MCLiveSim -----------------------------
(* LiveSim with a few orders of two shares for TLC. *)
EXTENDS LiveSim, TLC

CONSTANTS b1, b2, s1, s2, r1, r2

OneBuy == {b1}
TwoBuys == {b1, b2}
OneSell == {s1}
TwoSells == {s1, s2}
OneRunner == {r1}
TwoRunners == {r1, r2}

Symmetry == Permutations(TwoBuys)
ExitSymmetry == Permutations(TwoSells) \cup Permutations(TwoRunners)

=============================================================================
