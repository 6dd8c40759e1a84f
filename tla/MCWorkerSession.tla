--------------------------- MODULE MCWorkerSession --------------------------
(* One worker session with two callers, for TLC. *)
EXTENDS WorkerSession
=============================================================================
