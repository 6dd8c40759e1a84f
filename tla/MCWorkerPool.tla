---------------------------- MODULE MCWorkerPool ----------------------------
(* Concurrent tool calls on the pool, for TLC. *)
EXTENDS WorkerPool, TLC
AgentSymmetry == Permutations(Agents)
=============================================================================
