----------------------------- MODULE WorkerPool -----------------------------
(***************************************************************************)
(* The pool of worker sessions as the tools of the broker use it:          *)
(* worker_pool.rs (spawn_for, list, close, recover), ida_db and ida_health *)
(* of tools.rs, resolve_db of lib.rs, WorkerHealth of recovery.rs, and the *)
(* mutexes of the large-function tools of largefn_tools.rs.  Agents are    *)
(* concurrent tool calls.  Three kinds of mutex are taken: the pool's,     *)
(* open_dbs' and one per session.  A session's transport is WorkerSession; *)
(* here a call is one step that succeeds or fails.                         *)
(*                                                                         *)
(* The monitor task holds the session until the pump has reported a crash, *)
(* so the request channel of a live worker never closes and the arm of     *)
(* pump_task that would kill the child then is never taken.                *)
(***************************************************************************)
EXTENDS Naturals, FiniteSets

CONSTANTS
    Agents,       \* concurrent tool calls
    MaxSessions,  \* bound: sessions created in one behaviour
    MaxWorkers,   \* config.max_workers
    MaxRestarts,  \* RestartPolicy::max_restarts
    Nobody        \* a mutex is free

ASSUME PoolAssumption ==
    /\ MaxSessions \in Nat
    /\ MaxWorkers \in Nat \ {0}
    /\ MaxRestarts \in Nat
    /\ Nobody \notin Agents

Sessions == 1..MaxSessions
Handles == 1..MaxSessions
None == 0

Health == {"Healthy", "Crashed", "Recovering", "Dead"}

VARIABLES
    poolLock,   \* holder of broker.pool
    dbsLock,    \* holder of broker.open_dbs
    sessLock,   \* holder of each session's mutex
    slots,      \* pool.sessions: pairs of a handle and a session
    openDbs,    \* broker.open_dbs: handles
    nextSess, nextHandle,
    proc,       \* the worker process of each session
    pump,       \* each session's pump and monitor
    health, failures,  \* health and restart_failures of each session
    pc,         \* control state of each agent's tool call
    hdl,        \* the handle it works on
    sess,       \* the session it resolved
    fresh,      \* the session it is opening
    todo        \* the sessions list or health has still to look at

locks    == <<poolLock, dbsLock, sessLock>>
tables   == <<slots, openDbs, nextSess, nextHandle>>
sessions == <<proc, pump, health, failures>>
agents   == <<pc, hdl, sess, fresh, todo>>
vars == <<locks, tables, sessions, agents>>

TypeOK ==
    /\ poolLock \in Agents \cup {Nobody}
    /\ dbsLock \in Agents \cup {Nobody}
    /\ sessLock \in [Sessions -> Agents \cup {Nobody}]
    /\ slots \in SUBSET (Handles \X Sessions)
    /\ openDbs \in SUBSET Handles
    /\ nextSess \in 1..(MaxSessions + 1)
    /\ nextHandle \in 1..(MaxSessions + 1)
    /\ proc \in [Sessions -> {"none", "alive", "dead"}]
    /\ pump \in [Sessions -> {"on", "reported", "silent", "done"}]
    /\ health \in [Sessions -> Health]
    /\ failures \in [Sessions -> 0..(MaxRestarts + 1)]
    /\ pc \in [Agents -> {"idle", "spawn", "open", "list", "info", "resolve", "lock", "use",
                          "regions", "isolated", "closelock", "save", "close", "shutdown", "retain", "unlist",
                          "health", "survey", "recover", "respawn", "reopen"}]
    /\ hdl \in [Agents -> Handles \cup {None}]
    /\ sess \in [Agents -> Sessions \cup {None}]
    /\ fresh \in [Agents -> Sessions \cup {None}]
    /\ todo \in [Agents -> SUBSET Sessions]

Init ==
    /\ poolLock = Nobody /\ dbsLock = Nobody
    /\ sessLock = [s \in Sessions |-> Nobody]
    /\ slots = {} /\ openDbs = {} /\ nextSess = 1 /\ nextHandle = 1
    /\ proc = [s \in Sessions |-> "none"]
    /\ pump = [s \in Sessions |-> "on"]
    /\ health = [s \in Sessions |-> "Healthy"]
    /\ failures = [s \in Sessions |-> 0]
    /\ pc = [a \in Agents |-> "idle"]
    /\ hdl = [a \in Agents |-> None]
    /\ sess = [a \in Agents |-> None]
    /\ fresh = [a \in Agents |-> None]
    /\ todo = [a \in Agents |-> {}]

-----------------------------------------------------------------------------
Goto(a, l) == pc' = [pc EXCEPT ![a] = l]

\* The tool call returns; its locals are gone.
Done(a) ==
    /\ Goto(a, "idle")
    /\ hdl' = [hdl EXCEPT ![a] = None]
    /\ sess' = [sess EXCEPT ![a] = None]
    /\ fresh' = [fresh EXCEPT ![a] = None]
    /\ todo' = [todo EXCEPT ![a] = {}]

LockPool(a) == poolLock = Nobody /\ poolLock' = a
LockSession(a, s) == sessLock[s] = Nobody /\ sessLock' = [sessLock EXCEPT ![s] = a]
UnlockSession(s) == sessLock' = [sessLock EXCEPT ![s] = Nobody]

\* A call succeeds only on a live worker with a running pump.  A failed call
\* to a dead worker may be what ends the pump, by the failed write that is not
\* reported.
CallOk(s) == proc[s] = "alive" /\ pump[s] = "on" /\ UNCHANGED pump
CallFails(s) ==
    \/ UNCHANGED pump
    \/ proc[s] = "dead" /\ pump[s] = "on" /\ pump' = [pump EXCEPT ![s] = "silent"]

-----------------------------------------------------------------------------
(***************************************************************************)
(* ida_db open: the pool stays locked from the check to db.info.           *)
(***************************************************************************)
OpenStart(a) ==
    /\ pc[a] = "idle"
    /\ LockPool(a)
    /\ Goto(a, "spawn")
    /\ UNCHANGED <<dbsLock, sessLock, tables, sessions, hdl, sess, fresh, todo>>

\* max_workers is reached, or no worker says hello: nothing is left behind.
OpenRefused(a) ==
    /\ pc[a] = "spawn"
    /\ poolLock' = Nobody
    /\ Done(a)
    /\ UNCHANGED <<dbsLock, sessLock, tables, sessions>>

\* A process said hello; the session, its pump and its monitor exist.
NewSession(a, l) ==
    /\ nextSess \in Sessions
    /\ nextSess' = nextSess + 1
    /\ proc' = [proc EXCEPT ![nextSess] = "alive"]
    /\ sessLock' = [sessLock EXCEPT ![nextSess] = a]
    /\ fresh' = [fresh EXCEPT ![a] = nextSess]
    /\ Goto(a, l)
    /\ UNCHANGED <<poolLock, dbsLock, slots, openDbs, nextHandle, pump, health, failures, hdl,
                   sess, todo>>

\* Mutant of OpenSpawns: the cap is off by one.
OpenSpawnsOneTooMany(a) ==
    /\ pc[a] = "spawn"
    /\ Cardinality(slots) <= MaxWorkers
    /\ NewSession(a, "open")

OpenSpawns(a) ==
    /\ pc[a] = "spawn"
    /\ Cardinality(slots) < MaxWorkers
    /\ NewSession(a, "open")

\* backend.select or db.open fails: the `?` drops the pool's reference to the
\* session, not the monitor's.
OpenFails(a) ==
    /\ pc[a] = "open"
    /\ CallFails(fresh[a])
    /\ UnlockSession(fresh[a])
    /\ poolLock' = Nobody
    /\ Done(a)
    /\ UNCHANGED <<dbsLock, tables, proc, health, failures>>

OpenSucceeds(a) ==
    /\ pc[a] = "open"
    /\ CallOk(fresh[a])
    /\ UnlockSession(fresh[a])
    /\ slots' = slots \cup {<<nextHandle, fresh[a]>>}
    /\ hdl' = [hdl EXCEPT ![a] = nextHandle]
    /\ nextHandle' = nextHandle + 1
    /\ Goto(a, "list")
    /\ UNCHANGED <<poolLock, dbsLock, openDbs, nextSess, proc, health, failures, sess, fresh, todo>>

OpenLists(a) ==
    /\ pc[a] = "list"
    /\ dbsLock = Nobody
    /\ openDbs' = openDbs \cup {hdl[a]}
    /\ Goto(a, "info")
    /\ UNCHANGED <<locks, slots, nextSess, nextHandle, sessions, hdl, sess, fresh, todo>>

\* db.info, whose error is ignored; then the pool is unlocked.
OpenInfo(a) ==
    /\ pc[a] = "info"
    /\ sessLock[fresh[a]] = Nobody
    /\ CallOk(fresh[a]) \/ CallFails(fresh[a])
    /\ poolLock' = Nobody
    /\ Done(a)
    /\ UNCHANGED <<dbsLock, sessLock, tables, proc, health, failures>>

-----------------------------------------------------------------------------
(***************************************************************************)
(* Tools on a handle: resolve_db, then the session's mutex, then calls.    *)
(* l says what is done with the session: "lock" (info, save and the other  *)
(* tools) or "closelock" (close).  An omitted handle resolves to the one   *)
(* handle of open_dbs, which is one of these.                              *)
(***************************************************************************)
Resolve(a, h, l) ==
    /\ pc[a] = "idle"
    /\ h < nextHandle
    /\ poolLock = Nobody
    /\ \E s \in Sessions :
         /\ <<h, s>> \in slots
         /\ sess' = [sess EXCEPT ![a] = s]
    /\ hdl' = [hdl EXCEPT ![a] = h]
    /\ Goto(a, l)
    /\ UNCHANGED <<locks, tables, sessions, fresh, todo>>

UseLock(a) ==
    /\ pc[a] = "lock"
    /\ LockSession(a, sess[a])
    /\ Goto(a, "use")
    /\ UNCHANGED <<poolLock, dbsLock, tables, sessions, hdl, sess, fresh, todo>>

UseCall(a) ==
    /\ pc[a] = "use"
    /\ CallOk(sess[a]) \/ CallFails(sess[a])
    /\ UnlockSession(sess[a])
    /\ Done(a)
    /\ UNCHANGED <<poolLock, dbsLock, tables, proc, health, failures>>

\* function_hierarchical and function_region: the calls for the function's graph
\* have succeeded, and the pool is asked for with the session still locked.  (A
\* small function, try_hexrays = 0 and a failed call end with UseCall.)
LargeCalls(a) ==
    /\ pc[a] = "use"
    /\ CallOk(sess[a])
    /\ Goto(a, "regions")
    /\ UNCHANGED <<locks, tables, proc, health, failures, hdl, sess, fresh, todo>>

\* The worker's path is read under the pool's mutex.  function_hierarchical gives
\* the session back and runs its regions without a mutex; function_region keeps
\* it while its isolated worker runs.
LargeReadsPool(a) ==
    /\ pc[a] = "regions"
    /\ poolLock = Nobody
    /\ \/ UnlockSession(sess[a]) /\ Done(a)
       \/ Goto(a, "isolated") /\ UNCHANGED <<sessLock, hdl, sess, fresh, todo>>
    /\ UNCHANGED <<poolLock, dbsLock, tables, sessions>>

LargeEnds(a) ==
    /\ pc[a] = "isolated"
    /\ UnlockSession(sess[a])
    /\ Done(a)
    /\ UNCHANGED <<poolLock, dbsLock, tables, sessions>>

CloseLock(a) ==
    /\ pc[a] = "closelock"
    /\ LockSession(a, sess[a])
    /\ Goto(a, "save")
    /\ UNCHANGED <<poolLock, dbsLock, tables, sessions, hdl, sess, fresh, todo>>

\* db.save, db.close and shutdown, each with `?`.
CloseCall(a) ==
    /\ \/ pc[a] = "save" /\ Goto(a, "close")
       \/ pc[a] = "close" /\ Goto(a, "shutdown")
    /\ CallOk(sess[a])
    /\ UNCHANGED <<locks, tables, proc, health, failures, hdl, sess, fresh, todo>>

CloseFails(a) ==
    /\ pc[a] \in {"save", "close", "shutdown"}
    /\ CallFails(sess[a])
    /\ UnlockSession(sess[a])
    /\ Done(a)
    /\ UNCHANGED <<poolLock, dbsLock, tables, proc, health, failures>>

\* Mutant of CloseShutdown: the session's guard is kept on the way to the pool.
CloseShutdownHoldsSession(a) ==
    /\ pc[a] = "shutdown"
    /\ CallOk(sess[a])
    /\ proc' = [proc EXCEPT ![sess[a]] = "dead"]
    /\ Goto(a, "retain")
    /\ UNCHANGED <<locks, tables, health, failures, hdl, sess, fresh, todo>>

\* shutdown is answered and the worker exits.
CloseShutdown(a) ==
    /\ pc[a] = "shutdown"
    /\ CallOk(sess[a])
    /\ proc' = [proc EXCEPT ![sess[a]] = "dead"]
    /\ UnlockSession(sess[a])
    /\ Goto(a, "retain")
    /\ UNCHANGED <<poolLock, dbsLock, tables, health, failures, hdl, sess, fresh, todo>>

\* Mutant of CloseRetain: the pool is not locked.
CloseRetainUnlocked(a) ==
    /\ pc[a] = "retain"
    /\ slots' = {e \in slots : e[1] # hdl[a]}
    /\ Goto(a, "unlist")
    /\ UNCHANGED <<locks, openDbs, nextSess, nextHandle, sessions, hdl, sess, fresh, todo>>

CloseRetain(a) ==
    /\ pc[a] = "retain"
    /\ poolLock = Nobody
    /\ slots' = {e \in slots : e[1] # hdl[a]}
    /\ Goto(a, "unlist")
    /\ UNCHANGED <<locks, openDbs, nextSess, nextHandle, sessions, hdl, sess, fresh, todo>>

CloseUnlists(a) ==
    /\ pc[a] = "unlist"
    /\ dbsLock = Nobody
    /\ openDbs' = openDbs \ {hdl[a]}
    /\ Done(a)
    /\ UNCHANGED <<locks, slots, nextSess, nextHandle, sessions>>

-----------------------------------------------------------------------------
(***************************************************************************)
(* ida_db list and ida_health: the pool stays locked while the session     *)
(* mutexes are taken one after the other; health holds open_dbs as well.   *)
(***************************************************************************)
ListStart(a) ==
    /\ pc[a] = "idle"
    /\ LockPool(a)
    /\ todo' = [todo EXCEPT ![a] = {e[2] : e \in slots}]
    /\ Goto(a, "survey")
    /\ UNCHANGED <<dbsLock, sessLock, tables, sessions, hdl, sess, fresh>>

HealthStart(a) ==
    /\ pc[a] = "idle"
    /\ LockPool(a)
    /\ Goto(a, "health")
    /\ UNCHANGED <<dbsLock, sessLock, tables, sessions, hdl, sess, fresh, todo>>

HealthLocksDbs(a) ==
    /\ pc[a] = "health"
    /\ dbsLock = Nobody
    /\ dbsLock' = a
    /\ todo' = [todo EXCEPT ![a] = {e[2] : e \in {x \in slots : x[1] \in openDbs}}]
    /\ Goto(a, "survey")
    /\ UNCHANGED <<poolLock, sessLock, tables, sessions, hdl, sess, fresh>>

SurveyNext(a) ==
    /\ pc[a] = "survey"
    /\ \E s \in todo[a] :
         /\ sessLock[s] = Nobody
         /\ todo' = [todo EXCEPT ![a] = @ \ {s}]
    /\ UNCHANGED <<locks, tables, sessions, pc, hdl, sess, fresh>>

SurveyEnd(a) ==
    /\ pc[a] = "survey"
    /\ todo[a] = {}
    /\ poolLock' = Nobody
    /\ dbsLock' = IF dbsLock = a THEN Nobody ELSE dbsLock
    /\ Done(a)
    /\ UNCHANGED <<sessLock, tables, sessions>>

-----------------------------------------------------------------------------
(***************************************************************************)
(* WorkerPool::recover, with the pool locked throughout.                   *)
(***************************************************************************)
RecoverStart(a, h) ==
    /\ pc[a] = "idle"
    /\ LockPool(a)
    /\ \E s \in Sessions :
         /\ <<h, s>> \in slots
         /\ sess' = [sess EXCEPT ![a] = s]
    /\ hdl' = [hdl EXCEPT ![a] = h]
    /\ Goto(a, "recover")
    /\ UNCHANGED <<dbsLock, sessLock, tables, sessions, fresh, todo>>

\* A Healthy session needs nothing, a Dead one is given up.
RecoverNothing(a) ==
    /\ pc[a] = "recover"
    /\ sessLock[sess[a]] = Nobody
    /\ health[sess[a]] \in {"Healthy", "Dead"}
    /\ poolLock' = Nobody
    /\ Done(a)
    /\ UNCHANGED <<dbsLock, sessLock, tables, sessions>>

\* Mutant of RecoverBegins: a Dead session is tried again.
RecoverBeginsWithDead(a) ==
    /\ pc[a] = "recover"
    /\ sessLock[sess[a]] = Nobody
    /\ health[sess[a]] # "Healthy"
    /\ health' = [health EXCEPT ![sess[a]] = "Recovering"]
    /\ Goto(a, "respawn")
    /\ UNCHANGED <<locks, tables, proc, pump, failures, hdl, sess, fresh, todo>>

RecoverBegins(a) ==
    /\ pc[a] = "recover"
    /\ sessLock[sess[a]] = Nobody
    /\ health[sess[a]] \in {"Crashed", "Recovering"}
    /\ health' = [health EXCEPT ![sess[a]] = "Recovering"]
    /\ Goto(a, "respawn")
    /\ UNCHANGED <<locks, tables, proc, pump, failures, hdl, sess, fresh, todo>>

\* Mutant of CountFailure: one more attempt than the policy has.
CountFailureOneTooMany(a) ==
    /\ sessLock[sess[a]] = Nobody
    /\ failures' = [failures EXCEPT ![sess[a]] = @ + 1]
    /\ IF failures[sess[a]] > MaxRestarts
       THEN /\ health' = [health EXCEPT ![sess[a]] = "Dead"]
            /\ poolLock' = Nobody
            /\ Done(a)
       ELSE /\ Goto(a, "respawn")
            /\ fresh' = [fresh EXCEPT ![a] = None]
            /\ UNCHANGED <<health, poolLock, hdl, sess, todo>>

\* One more failure of the session, which may be one too many.
CountFailure(a) ==
    /\ sessLock[sess[a]] = Nobody
    /\ failures' = [failures EXCEPT ![sess[a]] = @ + 1]
    /\ IF failures[sess[a]] + 1 > MaxRestarts
       THEN /\ health' = [health EXCEPT ![sess[a]] = "Dead"]
            /\ poolLock' = Nobody
            /\ Done(a)
       ELSE /\ Goto(a, "respawn")
            /\ fresh' = [fresh EXCEPT ![a] = None]
            /\ UNCHANGED <<health, poolLock, hdl, sess, todo>>

\* spawn_for without a bound: no worker says hello.
RespawnFails(a) ==
    /\ pc[a] = "respawn"
    /\ CountFailure(a)
    /\ UNCHANGED <<dbsLock, sessLock, tables, proc, pump>>

Respawn(a) ==
    /\ pc[a] = "respawn"
    /\ NewSession(a, "reopen")

\* The fresh worker does not open the database.
ReopenFails(a) ==
    /\ pc[a] = "reopen"
    /\ CallFails(fresh[a])
    /\ UnlockSession(fresh[a])
    /\ CountFailure(a)
    /\ UNCHANGED <<dbsLock, tables, proc>>

\* Mutant of Reopens: the fresh session keeps its own handle.
ReopensUnderNewHandle(a) ==
    /\ pc[a] = "reopen"
    /\ CallOk(fresh[a])
    /\ UnlockSession(fresh[a])
    /\ slots' = {e \in slots : e[1] # hdl[a]} \cup {<<nextHandle, fresh[a]>>}
    /\ nextHandle' = nextHandle + 1
    /\ poolLock' = Nobody
    /\ Done(a)
    /\ UNCHANGED <<dbsLock, openDbs, nextSess, proc, health, failures>>

\* The fresh session takes the old one's slot, under the old handle.
Reopens(a) ==
    /\ pc[a] = "reopen"
    /\ CallOk(fresh[a])
    /\ UnlockSession(fresh[a])
    /\ slots' = {e \in slots : e[1] # hdl[a]} \cup {<<hdl[a], fresh[a]>>}
    /\ nextHandle' = nextHandle + 1
    /\ poolLock' = Nobody
    /\ Done(a)
    /\ UNCHANGED <<dbsLock, openDbs, nextSess, proc, health, failures>>

-----------------------------------------------------------------------------
(***************************************************************************)
(* Workers die; the pump sees the end of their output and reports it; the  *)
(* monitor takes the session's mutex and marks it.                         *)
(***************************************************************************)
WorkerDies(s) ==
    /\ proc[s] = "alive"
    /\ proc' = [proc EXCEPT ![s] = "dead"]
    /\ UNCHANGED <<locks, tables, pump, health, failures, agents>>

PumpReports(s) ==
    /\ proc[s] = "dead"
    /\ pump[s] = "on"
    /\ pump' = [pump EXCEPT ![s] = "reported"]
    /\ UNCHANGED <<locks, tables, proc, health, failures, agents>>

MarkCrashed(s) ==
    /\ pump[s] = "reported"
    /\ sessLock[s] = Nobody
    /\ pump' = [pump EXCEPT ![s] = "done"]
    /\ health' = [health EXCEPT ![s] = "Crashed"]
    /\ UNCHANGED <<locks, tables, proc, failures, agents>>

-----------------------------------------------------------------------------
OpenStep(a) ==
    OpenRefused(a) \/ OpenSpawns(a) \/ OpenFails(a) \/ OpenSucceeds(a) \/ OpenLists(a) \/ OpenInfo(a)

UseStep(a) == UseLock(a) \/ UseCall(a) \/ LargeCalls(a) \/ LargeReadsPool(a) \/ LargeEnds(a)

CloseStep(a) ==
    \/ CloseLock(a) \/ CloseCall(a) \/ CloseFails(a) \/ CloseShutdown(a)
    \/ CloseRetain(a) \/ CloseUnlists(a)

SurveyStep(a) == HealthLocksDbs(a) \/ SurveyNext(a) \/ SurveyEnd(a)

RecoverStep(a) ==
    RecoverNothing(a) \/ RecoverBegins(a) \/ RespawnFails(a) \/ Respawn(a) \/ ReopenFails(a) \/ Reopens(a)

Start(a) ==
    \/ OpenStart(a) \/ ListStart(a) \/ HealthStart(a)
    \/ \E h \in Handles : Resolve(a, h, "lock") \/ Resolve(a, h, "closelock") \/ RecoverStart(a, h)

Step(a) == OpenStep(a) \/ UseStep(a) \/ CloseStep(a) \/ SurveyStep(a) \/ RecoverStep(a)

Next ==
    \/ \E a \in Agents : Start(a) \/ Step(a)
    \/ \E s \in Sessions : WorkerDies(s) \/ PumpReports(s) \/ MarkCrashed(s)

\* A tool call that has begun goes on, a call to a worker returns (it has a
\* timeout), and tokio's mutexes are first come, first served.
Fairness ==
    /\ \A a \in Agents : SF_vars(Step(a))
    /\ \A s \in Sessions : WF_vars(PumpReports(s)) /\ SF_vars(MarkCrashed(s))

Spec == Init /\ [][Next]_vars /\ Fairness

-----------------------------------------------------------------------------
(***************************************************************************)
(* Properties.                                                             *)
(***************************************************************************)
\* "max_workers reached": the pool never lists more sessions than max_workers,
\* although opens, closes and recoveries interleave.
PoolIsCapped == Cardinality(slots) <= MaxWorkers

\* The two tables agree up to the tool calls that are changing them: a handle
\* that only the pool knows is being opened, one that only open_dbs knows is
\* being closed.  A handle names one session and a session has one handle, also
\* while a recovery swaps a fresh session into the old one's slot.
TablesAgree ==
    /\ \A h \in Handles :
          /\ h \in {e[1] : e \in slots} \ openDbs =>
               \E a \in Agents : pc[a] = "list" /\ hdl[a] = h
          /\ h \in openDbs \ {e[1] : e \in slots} =>
               \E a \in Agents : pc[a] = "unlist" /\ hdl[a] = h
    /\ \A e, f \in slots : e[1] = f[1] \/ e[2] = f[2] => e = f

\* recovery.rs: a session goes from Healthy to Crashed to Recovering and from
\* there to Dead, and never back; what recovers is the handle, by a fresh
\* session.
HealthFollowsMachine ==
    [][\A s \in Sessions :
         health'[s] = health[s] \/
         <<health[s], health'[s]>> \in {<<"Healthy", "Crashed">>,
                                        <<"Crashed", "Recovering">>,
                                        <<"Recovering", "Dead">>}]_vars

\* The mutex that the next step of a needs is b's; every call begins with the
\* pool's.  A listing goes on with any of its sessions that is free.
WaitsFor(a, b) ==
    \/ pc[a] \in {"idle", "retain", "regions"} /\ poolLock = b
    \/ pc[a] \in {"list", "unlist", "health"} /\ dbsLock = b
    \/ pc[a] = "info" /\ sessLock[fresh[a]] = b
    \/ pc[a] \in {"lock", "closelock", "recover", "respawn", "reopen"} /\ sessLock[sess[a]] = b
    \/ pc[a] = "survey" /\ \E s \in todo[a] : sessLock[s] = b

\* The kind of mutex a takes next: the pool's, open_dbs', a session's or none; a
\* large-function tool, which asks for the pool last, counts with those that have
\* their session.
Stage(a) ==
    IF pc[a] \in {"idle", "retain"} THEN 1
    ELSE IF pc[a] \in {"list", "unlist", "health"} THEN 2
    ELSE IF pc[a] \in {"info", "lock", "closelock", "recover", "respawn", "reopen", "survey"} THEN 3
    ELSE 4

\* The mutexes are taken in the order pool, open_dbs, session, but for one place:
\* a tool call that waits waits for one that is further on, unless it is a
\* large-function tool that asks for the pool with its session locked.  So every
\* circle of waiting calls, however many there are, goes through a
\* function_hierarchical or function_region in that place.  Only a recovery takes
\* a session's mutex while it holds another, its fresh session's, which nobody
\* else can want.
WaitsAreOrdered ==
    \A a, b \in Agents : WaitsFor(a, b) => Stage(a) < Stage(b) \/ pc[a] = "regions"

\* Opens, recoveries and closes change the table of handles as if each did so at
\* one instant, although an open checks the cap, and a recovery looks up its
\* handle, many steps before it writes.  The module HandleTable says what that
\* means for handles and sessions.
Opening == {fresh[a] : a \in {b \in Agents : pc[b] \in {"open", "reopen"}}}
Table == INSTANCE HandleTable WITH table <- slots, handles <- nextHandle - 1,
                                   started <- nextSess - 1, opening <- Opening
ImplementsHandleTable == Table!Spec

\* Violated.  docs/ARCHITECTURE.md: "`max_workers` caps concurrent DB processes".
ProcessesAreCapped == Cardinality({s \in Sessions : proc[s] = "alive"}) <= MaxWorkers

\* Violated.  call_with_timeout and recover on a dead worker: "close and reopen the db".
CloseFreesDeadSlot ==
    [][\A a \in Agents :
         /\ pc[a] \in {"save", "close", "shutdown", "unlist"}
         /\ pc'[a] = "idle"
         /\ health[sess[a]] \in {"Crashed", "Dead"}
         => hdl[a] \notin {e[1] : e \in slots'}]_vars

\* Violated.  docs/LARGE_FUNCTION_ANALYSIS.md on the regions' isolated workers: "true
\* hard timeout; primary session never at risk".  The session that a large-function
\* tool has locked is given back.
PrimarySessionIsGivenBack == \A a \in Agents : pc[a] = "regions" ~> pc[a] = "idle"

=============================================================================
