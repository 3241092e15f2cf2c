---------------------------- MODULE MCCoreIoWorker ----------------------------
(* Instances of CoreIoWorker for TLC. *)
EXTENDS CoreIoWorker

CONSTANTS k1, k2
=============================================================================
