---------------------------- MODULE CallService ----------------------------
(***************************************************************************)
(* What a worker session promises about its calls, whatever the transport  *)
(* does: recovery.rs, CallFailure.  A request is executed at most once, an *)
(* answer is the answer of that execution, a request that never reached    *)
(* the worker is never executed later, and any other failure leaves the    *)
(* outcome unknown.                                                        *)
(***************************************************************************)
EXTENDS Naturals

CONSTANT MaxCalls

VARIABLES
    issued,  \* number of calls issued; ids are 1..issued
    execs,   \* how often each request was executed
    result   \* what each call returned

vars == <<issued, execs, result>>

Ids == 1..MaxCalls

Unreached == {"notSent", "dropped"}
Unknown   == {"failed", "timeout"}

Init ==
    /\ issued = 0
    /\ execs = [i \in Ids |-> 0]
    /\ result = [i \in Ids |-> "none"]

Issue ==
    /\ issued < MaxCalls
    /\ issued' = issued + 1
    /\ UNCHANGED <<execs, result>>

Execute(i) ==
    /\ i <= issued
    /\ execs[i] = 0
    /\ result[i] \notin Unreached
    /\ execs' = [execs EXCEPT ![i] = 1]
    /\ UNCHANGED <<issued, result>>

Finish(i, r) ==
    /\ i <= issued
    /\ result[i] = "none"
    /\ \/ r = "answer" /\ execs[i] = 1
       \/ r \in Unreached /\ execs[i] = 0
       \/ r \in Unknown
    /\ result' = [result EXCEPT ![i] = r]
    /\ UNCHANGED <<issued, execs>>

Next ==
    \/ Issue
    \/ \E i \in Ids : Execute(i) \/ \E r \in {"answer"} \cup Unreached \cup Unknown : Finish(i, r)

Spec == Init /\ [][Next]_vars

=============================================================================
