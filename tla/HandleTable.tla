---------------------------- MODULE HandleTable ----------------------------
(***************************************************************************)
(* What the pool promises about the handles it gives out, as if opening,   *)
(* recovering and closing a database each changed its table at one         *)
(* instant: worker_pool.rs, WorkerPool.  A handle is drawn once, it names  *)
(* one session, a recovery exchanges the session and keeps the handle,     *)
(* only a close ends it, and a session serves one handle in its life.      *)
(***************************************************************************)
EXTENDS Naturals, FiniteSets

CONSTANT MaxWorkers

VARIABLES
    table,    \* pairs of a handle and the session that serves it
    handles,  \* number of handles drawn
    started,  \* number of sessions started
    opening   \* the sessions started that serve no handle yet

vars == <<table, handles, started, opening>>

Init == table = {} /\ handles = 0 /\ started = 0 /\ opening = {}

Without(h) == {e \in table : e[1] # h}

Start ==
    /\ started' = started + 1
    /\ opening' = opening \cup {started + 1}
    /\ UNCHANGED <<table, handles>>

GiveUp(s) ==
    /\ opening' = opening \ {s}
    /\ UNCHANGED <<table, handles, started>>

Open(s) ==
    /\ Cardinality(table) < MaxWorkers
    /\ table' = table \cup {<<handles + 1, s>>}
    /\ handles' = handles + 1
    /\ opening' = opening \ {s}
    /\ UNCHANGED started

\* The number drawn for the fresh session is not used.
Recover(e, s) ==
    /\ table' = Without(e[1]) \cup {<<e[1], s>>}
    /\ handles' = handles + 1
    /\ opening' = opening \ {s}
    /\ UNCHANGED started

Close(e) ==
    /\ table' = Without(e[1])
    /\ UNCHANGED <<handles, started, opening>>

Next ==
    \/ Start
    \/ \E s \in opening : GiveUp(s) \/ Open(s) \/ \E e \in table : Recover(e, s)
    \/ \E e \in table : Close(e)

Spec == Init /\ [][Next]_vars

=============================================================================
