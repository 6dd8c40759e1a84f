-------------------------------- MODULE Jobs --------------------------------
(***************************************************************************)
(* Background analysis jobs (crates/rmcp-broker/src/jobs.rs): the registry *)
(* of JobManager, the task each job runs in, the mutex of the session the  *)
(* task calls, and the janitor's two-phase sweep.  Every operation on the  *)
(* registry holds its mutex from beginning to end, so each is one action;  *)
(* sweep takes it twice.  status, result and list only read.  The tools    *)
(* that call the worker themselves take the same session mutexes.          *)
(***************************************************************************)
EXTENDS Naturals, FiniteSets

CONSTANTS
    MaxJobs,     \* bound: jobs started in one behaviour
    Sessions,    \* worker sessions jobs run on
    MaxRunning,  \* max_running
    TTL          \* result_ttl, in ticks of the clock

ASSUME JobsAssumption ==
    /\ MaxJobs \in Nat
    /\ MaxRunning \in Nat \ {0}
    /\ TTL \in Nat \ {0}
    /\ Sessions # {}

Ids == 1..MaxJobs
NoJob == 0
ToolCall == MaxJobs + 1

VARIABLES
    nextJob,    \* the next job id
    state,      \* the registry: state of each job's entry
    age,        \* ticks since the entry's `finished`, up to TTL
    session,    \* the session each job was started on
    task,       \* control state of each job's task
    returned,   \* what the task's call returned
    holder,     \* the job whose task, or ToolCall, holds each session's mutex
    expired,    \* the ids the sweep has collected and not yet removed
    cancelled   \* history: jobs whose cancel answered "cancelled": true

jobsVars == <<nextJob, state, age, session, task, returned, holder, expired, cancelled>>

JobState == {"Running", "Done", "Failed", "Cancelled"}
Finished == {"Done", "Failed", "Cancelled"}

JobsTypeOK ==
    /\ nextJob \in 1..(MaxJobs + 1)
    /\ state \in [Ids -> JobState \cup {"absent"}]
    /\ age \in [Ids -> 0..TTL]
    /\ session \in [Ids -> Sessions]
    /\ task \in [Ids -> {"none", "queued", "calling", "storing", "ended"}]
    /\ returned \in [Ids -> {"none", "Done", "Failed"}]
    /\ holder \in [Sessions -> Ids \cup {NoJob, ToolCall}]
    /\ expired \in SUBSET Ids
    /\ cancelled \in SUBSET Ids

JobsInit ==
    /\ nextJob = 1
    /\ state = [i \in Ids |-> "absent"]
    /\ age = [i \in Ids |-> 0]
    /\ session = [i \in Ids |-> CHOOSE s \in Sessions : TRUE]
    /\ task = [i \in Ids |-> "none"]
    /\ returned = [i \in Ids |-> "none"]
    /\ holder = [s \in Sessions |-> NoJob]
    /\ expired = {}
    /\ cancelled = {}

Running == {i \in Ids : state[i] = "Running"}

\* start: refused when max_running jobs run; otherwise the entry is inserted
\* and the task spawned.
Start(s) ==
    /\ nextJob \in Ids
    /\ Cardinality(Running) < MaxRunning
    /\ nextJob' = nextJob + 1
    /\ state' = [state EXCEPT ![nextJob] = "Running"]
    /\ session' = [session EXCEPT ![nextJob] = s]
    /\ task' = [task EXCEPT ![nextJob] = "queued"]
    /\ UNCHANGED <<age, returned, holder, expired, cancelled>>

\* The task takes the session's mutex and calls the worker.
TaskCalls(i) ==
    /\ task[i] = "queued"
    /\ holder[session[i]] = NoJob
    /\ holder' = [holder EXCEPT ![session[i]] = i]
    /\ task' = [task EXCEPT ![i] = "calling"]
    /\ UNCHANGED <<nextJob, state, age, session, returned, expired, cancelled>>

\* call_with_timeout returns an answer or an error; the mutex is released.
TaskReturns(i, o) ==
    /\ task[i] = "calling"
    /\ returned' = [returned EXCEPT ![i] = o]
    /\ holder' = [holder EXCEPT ![session[i]] = NoJob]
    /\ task' = [task EXCEPT ![i] = "storing"]
    /\ UNCHANGED <<nextJob, state, age, session, expired, cancelled>>

\* Mutant of TaskStores: the outcome of a failed call is not stored.
TaskStoresDone(i) ==
    /\ task[i] = "storing"
    /\ task' = [task EXCEPT ![i] = "ended"]
    /\ IF state[i] = "absent" \/ returned[i] = "Failed"
       THEN UNCHANGED <<state, age>>
       ELSE /\ state' = [state EXCEPT ![i] = returned[i]]
            /\ age' = [age EXCEPT ![i] = 0]
    /\ UNCHANGED <<nextJob, session, returned, holder, expired, cancelled>>

\* The outcome goes into the entry, if there still is one, whatever the entry
\* says.
TaskStores(i) ==
    /\ task[i] = "storing"
    /\ task' = [task EXCEPT ![i] = "ended"]
    /\ IF state[i] = "absent"
       THEN UNCHANGED <<state, age>>
       ELSE /\ state' = [state EXCEPT ![i] = returned[i]]
            /\ age' = [age EXCEPT ![i] = 0]
    /\ UNCHANGED <<nextJob, session, returned, holder, expired, cancelled>>

Cancel(i) ==
    /\ state[i] = "Running"
    /\ state' = [state EXCEPT ![i] = "Cancelled"]
    /\ age' = [age EXCEPT ![i] = 0]
    /\ cancelled' = cancelled \cup {i}
    /\ UNCHANGED <<nextJob, session, task, returned, holder, expired>>

\* Mutants of SweepCollects: age is not looked at; failed jobs are missed.
SweepCollectsYoung ==
    /\ expired = {}
    /\ expired' = {i \in Ids : state[i] \in Finished}
    /\ expired' # {}
    /\ UNCHANGED <<nextJob, state, age, session, task, returned, holder, cancelled>>

SweepMissesFailed ==
    /\ expired = {}
    /\ expired' = {i \in Ids : state[i] \in {"Done", "Cancelled"} /\ age[i] >= TTL}
    /\ expired' # {}
    /\ UNCHANGED <<nextJob, state, age, session, task, returned, holder, cancelled>>

\* sweep, first critical section.
SweepCollects ==
    /\ expired = {}
    /\ expired' = {i \in Ids : state[i] \in Finished /\ age[i] >= TTL}
    /\ expired' # {}
    /\ UNCHANGED <<nextJob, state, age, session, task, returned, holder, cancelled>>

\* sweep, second critical section.
SweepRemoves ==
    /\ expired # {}
    /\ state' = [i \in Ids |-> IF i \in expired THEN "absent" ELSE state[i]]
    /\ expired' = {}
    /\ UNCHANGED <<nextJob, age, session, task, returned, holder, cancelled>>

Tick ==
    /\ \E i \in Ids : state[i] \in Finished /\ age[i] < TTL
    /\ age' = [i \in Ids |-> IF state[i] \in Finished /\ age[i] < TTL
                             THEN age[i] + 1 ELSE age[i]]
    /\ UNCHANGED <<nextJob, state, session, task, returned, holder, expired, cancelled>>

\* A tool call locks the session for its own calls, and gives it back.
ToolLocks(s) ==
    /\ holder[s] = NoJob
    /\ holder' = [holder EXCEPT ![s] = ToolCall]
    /\ UNCHANGED <<nextJob, state, age, session, task, returned, expired, cancelled>>

ToolReturns(s) ==
    /\ holder[s] = ToolCall
    /\ holder' = [holder EXCEPT ![s] = NoJob]
    /\ UNCHANGED <<nextJob, state, age, session, task, returned, expired, cancelled>>

TaskStep(i) ==
    \/ TaskCalls(i)
    \/ \E o \in {"Done", "Failed"} : TaskReturns(i, o)
    \/ TaskStores(i)

JobsNext ==
    \/ \E s \in Sessions : Start(s) \/ ToolLocks(s) \/ ToolReturns(s)
    \/ \E i \in Ids : TaskStep(i) \/ Cancel(i)
    \/ SweepCollects
    \/ SweepRemoves
    \/ Tick

\* Broker tasks run, time passes and tokio's mutex is first come, first served.
\* Nothing is assumed of the calls made with a session locked: call_with_timeout
\* waits for room in the channel outside its timeout, and a large-function tool
\* may wait for the pool for ever with its session locked (WorkerPool).
JobsFairness ==
    /\ \A i \in Ids :
         /\ SF_jobsVars(TaskCalls(i))
         /\ WF_jobsVars(TaskStores(i))
    /\ WF_jobsVars(SweepCollects)
    /\ WF_jobsVars(SweepRemoves)
    /\ WF_jobsVars(Tick)

JobsSpec == JobsInit /\ [][JobsNext]_jobsVars /\ JobsFairness

-----------------------------------------------------------------------------
(***************************************************************************)
(* Properties.                                                             *)
(***************************************************************************)
\* "Data is never lost": from the moment the task has stored it, the outcome
\* of a job nobody cancelled stays in the registry, unchanged, until it is
\* TTL old; the janitor's gap between collecting and removing included.
OutcomeIsKept ==
    \A i \in Ids :
        task[i] = "ended" /\ i \notin cancelled /\ age[i] < TTL => state[i] = returned[i]

\* As long as whoever locks a session gives it back, no job stays "running" for
\* ever: also one that is queued behind other jobs and tool calls on its session
\* ends, whatever its call returns, or is cancelled.
JobsEnd ==
    (\A s \in Sessions : holder[s] # NoJob ~> holder[s] = NoJob)
        => \A i \in Ids : state[i] = "Running" ~> state[i] # "Running"

\* Every finished entry is removed some time: the registry does not fill with
\* dead payloads, not even with a late outcome stored over a cancelled entry.
FinishedIsSwept == \A i \in Ids : state[i] \in Finished ~> state[i] = "absent"

=============================================================================
