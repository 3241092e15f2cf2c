-------------------------- MODULE MCProjectionOutbox --------------------------
(* Instances of ProjectionOutbox for TLC. *)
EXTENDS ProjectionOutbox, FiniteSets, TLC

CONSTANTS e1, e2, e3, e4, w1, w2

\* Two valid ticks, and an invalid and a quote-only one older than both.
Stamps == [e \in Events |-> CASE e = e1 -> 2 [] e = e2 -> 3 [] OTHER -> 1]
Kinds == [e \in Events |-> CASE e = e3 -> "invalid" [] e = e4 -> "quote" [] OTHER -> "valid"]

\* Bound: two events of the four, and one run at a time beside a tick that is not valid.
InScope ==
  /\ Cardinality(stored) <= 2
  /\ \/ /\ \A e \in stored : Kind[e] = "valid"
        /\ \A w \in Workers : worker[w].mode \in {"none", "apply"}
     \/ Cardinality({w \in Workers : worker[w] # NoRun}) <= 1

MCSpec == Init /\ [][Next /\ InScope']_vars

Symmetry == Permutations(Workers)
=============================================================================
