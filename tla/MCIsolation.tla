---------------------------- MODULE MCIsolation ----------------------------
(* Concurrent disposable runs over the semaphore, for TLC. *)
EXTENDS Isolation
=============================================================================
