-------------------------- MODULE MCWorkerDispatch --------------------------
(* One worker process and the agents it serves, for TLC. *)
EXTENDS WorkerDispatch
=============================================================================
