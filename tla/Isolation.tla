----------------------------- MODULE Isolation -----------------------------
(***************************************************************************)
(* Disposable analysis workers (crates/rmcp-broker/src/isolation.rs):      *)
(* run_isolated with its semaphore permit, the child process, the guard    *)
(* whose Drop kills it, and the IsoStats ledger.  Several broker tasks run *)
(* it at once; any of them may be abandoned (its future dropped, or a      *)
(* panic) where it awaits.                                                 *)
(***************************************************************************)
EXTENDS Naturals, FiniteSets

CONSTANTS
    Tasks,          \* broker tasks that call run_isolated
    MaxConcurrent,  \* MAX_CONCURRENT
    MaxSpawns,      \* bound: no run starts after this many spawns
    MaxRejects      \* bound: rejections in one behaviour

ASSUME IsolationAssumption ==
    /\ IsFiniteSet(Tasks)
    /\ MaxConcurrent \in Nat \ {0}
    /\ MaxSpawns \in Nat
    /\ MaxRejects \in Nat

Outcomes == {"none", "Ok", "Timeout", "Crashed", "BadResponse"}

\* The three requests: backend.select, db.open and the risky method.
LastRequest == 3

VARIABLES
    pc,         \* control state of each task's run_isolated
    permits,    \* free permits of the semaphore
    proc,       \* the child of each task
    accounted,  \* guard.accounted
    request,    \* the request of the sequence each task is at
    reply,      \* what the child has answered to it
    outcome,    \* what run_isolated returns
    spawned, killedTimeout, killedCrash, exitedClean, rejectedCap  \* IsoStats

stats == <<spawned, killedTimeout, killedCrash, exitedClean, rejectedCap>>
vars == <<pc, permits, proc, accounted, request, reply, outcome, stats>>

TypeOK ==
    /\ pc \in [Tasks -> {"idle", "permit", "guarded", "hello", "sequence", "killing",
                         "dropping", "returning"}]
    /\ permits \in 0..MaxConcurrent
    /\ proc \in [Tasks -> {"none", "alive", "dead"}]
    /\ accounted \in [Tasks -> BOOLEAN]
    /\ request \in [Tasks -> 1..LastRequest]
    /\ reply \in [Tasks -> {"none", "hello", "result", "error"}]
    /\ outcome \in [Tasks -> Outcomes]
    /\ \A n \in {spawned, killedTimeout, killedCrash, exitedClean, rejectedCap} : n \in Nat

Init ==
    /\ pc = [t \in Tasks |-> "idle"]
    /\ permits = MaxConcurrent
    /\ proc = [t \in Tasks |-> "none"]
    /\ accounted = [t \in Tasks |-> FALSE]
    /\ request = [t \in Tasks |-> 1]
    /\ reply = [t \in Tasks |-> "none"]
    /\ outcome = [t \in Tasks |-> "none"]
    /\ spawned = 0 /\ killedTimeout = 0 /\ killedCrash = 0 /\ exitedClean = 0 /\ rejectedCap = 0

Goto(t, l) == pc' = [pc EXCEPT ![t] = l]

-----------------------------------------------------------------------------
\* try_acquire_owned, without waiting.
Acquire(t) ==
    /\ pc[t] = "idle"
    /\ spawned < MaxSpawns
    /\ permits > 0
    /\ permits' = permits - 1
    /\ Goto(t, "permit")
    /\ UNCHANGED <<proc, accounted, request, reply, outcome, stats>>

Reject(t) ==
    /\ pc[t] = "idle"
    /\ permits = 0
    /\ rejectedCap < MaxRejects
    /\ rejectedCap' = rejectedCap + 1
    /\ UNCHANGED <<pc, permits, proc, accounted, request, reply, outcome, spawned,
                   killedTimeout, killedCrash, exitedClean>>

\* cmd.spawn fails: the `?` drops the permit before there is a guard.
SpawnFails(t) ==
    /\ pc[t] = "permit"
    /\ Goto(t, "returning")
    /\ UNCHANGED <<permits, proc, accounted, request, reply, outcome, stats>>

Spawn(t) ==
    /\ pc[t] = "permit"
    /\ proc' = [proc EXCEPT ![t] = "alive"]
    /\ Goto(t, "guarded")
    /\ UNCHANGED <<permits, accounted, request, reply, outcome, stats>>

\* The counter is one atomic, apart from the spawn.
CountSpawned(t) ==
    /\ pc[t] = "guarded"
    /\ spawned' = spawned + 1
    /\ Goto(t, "hello")
    /\ UNCHANGED <<permits, proc, accounted, request, reply, outcome, killedTimeout,
                   killedCrash, exitedClean, rejectedCap>>

\* An early return with Crashed: no hello, a bad frame, another protocol.  The
\* guard is dropped unaccounted.
HelloFails(t) ==
    /\ pc[t] = "hello"
    /\ proc[t] = "dead" \/ reply[t] = "hello"
    /\ outcome' = [outcome EXCEPT ![t] = "Crashed"]
    /\ Goto(t, "dropping")
    /\ UNCHANGED <<permits, proc, accounted, request, reply, stats>>

Hello(t) ==
    /\ pc[t] = "hello"
    /\ reply[t] = "hello"
    /\ reply' = [reply EXCEPT ![t] = "none"]
    /\ Goto(t, "sequence")
    /\ UNCHANGED <<permits, proc, accounted, request, outcome, stats>>

\* Mutant of TimeOut: hello has no time limit.
TimeOutAfterHello(t) ==
    /\ pc[t] = "sequence"
    /\ reply[t] = "none"
    /\ killedTimeout' = killedTimeout + 1
    /\ accounted' = [accounted EXCEPT ![t] = TRUE]
    /\ outcome' = [outcome EXCEPT ![t] = "Timeout"]
    /\ Goto(t, "killing")
    /\ UNCHANGED <<permits, proc, request, reply, spawned, killedCrash, exitedClean,
                   rejectedCap>>

\* The hello budget, or what remains of the hard timeout, is used up.
TimeOut(t) ==
    /\ pc[t] \in {"hello", "sequence"}
    /\ reply[t] = "none"
    /\ killedTimeout' = killedTimeout + 1
    /\ accounted' = [accounted EXCEPT ![t] = TRUE]
    /\ outcome' = [outcome EXCEPT ![t] = "Timeout"]
    /\ Goto(t, "killing")
    /\ UNCHANGED <<permits, proc, request, reply, spawned, killedCrash, exitedClean,
                   rejectedCap>>

\* select and open are answered: the next request is written.
NextRequest(t) ==
    /\ pc[t] = "sequence"
    /\ reply[t] = "result"
    /\ request[t] < LastRequest
    /\ request' = [request EXCEPT ![t] = @ + 1]
    /\ reply' = [reply EXCEPT ![t] = "none"]
    /\ UNCHANGED <<pc, permits, proc, accounted, outcome, stats>>

\* finish: Ok and BadResponse are both counted as a clean exit.
Finish(t, o) ==
    /\ exitedClean' = exitedClean + 1
    /\ accounted' = [accounted EXCEPT ![t] = TRUE]
    /\ outcome' = [outcome EXCEPT ![t] = o]
    /\ Goto(t, "killing")
    /\ UNCHANGED <<permits, proc, request, reply, spawned, killedTimeout, killedCrash,
                   rejectedCap>>

FinishOk(t) ==
    /\ pc[t] = "sequence"
    /\ reply[t] = "result"
    /\ request[t] = LastRequest
    /\ Finish(t, "Ok")

\* A structured error, a frame error, or the end of the child's output.
FinishBad(t) ==
    /\ pc[t] = "sequence"
    /\ reply[t] = "error" \/ (reply[t] = "none" /\ proc[t] = "dead")
    /\ Finish(t, "BadResponse")

\* Mutant of KillTree: the child is not killed.
KillTreeSpares(t) ==
    /\ pc[t] = "killing"
    /\ Goto(t, "returning")
    /\ UNCHANGED <<permits, proc, accounted, request, reply, outcome, stats>>

\* kill_tree: the job and the child are killed before the wait for the child.
KillTree(t) ==
    /\ pc[t] = "killing"
    /\ proc' = [proc EXCEPT ![t] = "dead"]
    /\ Goto(t, "returning")
    /\ UNCHANGED <<permits, accounted, request, reply, outcome, stats>>

\* The future is dropped where it awaits.
Abandon(t) ==
    /\ pc[t] \in {"hello", "sequence", "killing"}
    /\ Goto(t, "dropping")
    /\ UNCHANGED <<permits, proc, accounted, request, reply, outcome, stats>>

\* Mutant of DropGuard: the accounted flag is not looked at.
DropGuardRecounts(t) ==
    /\ pc[t] = "dropping"
    /\ killedCrash' = killedCrash + 1
    /\ accounted' = [accounted EXCEPT ![t] = TRUE]
    /\ proc' = [proc EXCEPT ![t] = "dead"]
    /\ Goto(t, "returning")
    /\ UNCHANGED <<permits, request, reply, outcome, spawned, killedTimeout, exitedClean,
                   rejectedCap>>

\* DisposableGuard::drop.
DropGuard(t) ==
    /\ pc[t] = "dropping"
    /\ killedCrash' = IF accounted[t] THEN killedCrash ELSE killedCrash + 1
    /\ accounted' = [accounted EXCEPT ![t] = TRUE]
    /\ proc' = [proc EXCEPT ![t] = "dead"]
    /\ Goto(t, "returning")
    /\ UNCHANGED <<permits, request, reply, outcome, spawned, killedTimeout, exitedClean,
                   rejectedCap>>

\* The permit goes last; the locals of the run are gone with it.
ReleasePermit(t) ==
    /\ pc[t] = "returning"
    /\ permits' = permits + 1
    /\ proc' = [proc EXCEPT ![t] = IF @ = "alive" THEN "alive" ELSE "none"]
    /\ accounted' = [accounted EXCEPT ![t] = FALSE]
    /\ request' = [request EXCEPT ![t] = 1]
    /\ reply' = [reply EXCEPT ![t] = "none"]
    /\ outcome' = [outcome EXCEPT ![t] = "none"]
    /\ Goto(t, "idle")
    /\ UNCHANGED stats

-----------------------------------------------------------------------------
\* The child: answers, or dies, or does neither.
ChildAnswers(t, r) ==
    /\ proc[t] = "alive"
    /\ reply[t] = "none"
    /\ \/ pc[t] = "hello" /\ r = "hello"
       \/ pc[t] = "sequence" /\ r \in {"result", "error"}
    /\ reply' = [reply EXCEPT ![t] = r]
    /\ UNCHANGED <<pc, permits, proc, accounted, request, outcome, stats>>

ChildDies(t) ==
    /\ proc[t] = "alive"
    /\ proc' = [proc EXCEPT ![t] = "dead"]
    /\ UNCHANGED <<pc, permits, accounted, request, reply, outcome, stats>>

-----------------------------------------------------------------------------
RunStep(t) ==
    \/ SpawnFails(t) \/ Spawn(t) \/ CountSpawned(t)
    \/ HelloFails(t) \/ Hello(t) \/ TimeOut(t) \/ NextRequest(t)
    \/ FinishOk(t) \/ FinishBad(t) \/ KillTree(t) \/ DropGuard(t) \/ ReleasePermit(t)

Next ==
    \E t \in Tasks :
        \/ Acquire(t) \/ Reject(t) \/ RunStep(t) \/ Abandon(t)
        \/ \E r \in {"hello", "result", "error"} : ChildAnswers(t, r)
        \/ ChildDies(t)

\* The broker's tasks and timers run; nothing is assumed of the children.
Spec == Init /\ [][Next]_vars /\ \A t \in Tasks : WF_vars(RunStep(t))

-----------------------------------------------------------------------------
(***************************************************************************)
(* Properties.                                                             *)
(***************************************************************************)
HoldsPermit(t) == pc[t] # "idle"

\* No child outlives the permit it runs under, on whatever path run_isolated
\* is left: the guard is dropped before the permit.  So the semaphore caps the
\* live children at MAX_CONCURRENT.
NoOrphan ==
    /\ \A t \in Tasks : proc[t] = "alive" => HoldsPermit(t)
    /\ Cardinality({t \in Tasks : proc[t] = "alive"}) <= MaxConcurrent

\* The runs whose guard is not yet accounted for.
Unaccounted ==
    {t \in Tasks : pc[t] \in {"hello", "sequence", "dropping"} /\ ~accounted[t]}

\* "the spawned == terminal ledger stays balanced": every child that was
\* counted is in exactly one terminal counter once its run is over, also after
\* an early return or an abandoned run, and is never counted twice.
LedgerBalances ==
    spawned = killedTimeout + killedCrash + exitedClean + Cardinality(Unaccounted)

\* A true hard timeout: a run ends although its child never answers.
RunsEnd == \A t \in Tasks : pc[t] # "idle" ~> pc[t] = "idle"

=============================================================================
