------------------------ MODULE MCEvaluationRunGuard ------------------------
(* Instances of EvaluationRunGuard for TLC. *)
EXTENDS EvaluationRunGuard

CONSTANTS r1, r2, r3, core, tool

\* Two worker threads of Core and one of another process.
MCProcOf == [r \in Runs |-> IF r = r3 THEN tool ELSE core]
=============================================================================
