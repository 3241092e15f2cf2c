----------------------- MODULE MCIncrementalEvaluation -----------------------
(* IncrementalEvaluation with two candidates for TLC. *)
EXTENDS IncrementalEvaluation

CONSTANTS c1, c2, e1, w1, w2

OneCand == {c1}
TwoCands == {c1, c2}
OneEnqueuer == {e1}
OneWorker == {w1}
TwoWorkers == {w1, w2}

=============================================================================
