--------------------------- MODULE WorkerDispatch ---------------------------
(***************************************************************************)
(* The worker process: one database, requests served one at a time         *)
(* (rmcp-worker dispatch.rs, plan.rs, transforms.rs, workflow.rs) over a   *)
(* backend (rmcp-ida mock.rs or idalib_backend.rs).  What is modelled is   *)
(* how a request is kept honest about the database it reads or edits: the  *)
(* revision counter and its optimistic guard, the analysis index and the   *)
(* workflow cache keyed by that revision, the audit trail, plans,          *)
(* transforms and snapshots.  A database content is a record of stamps:    *)
(* of its last counted edit, one that bumps the revision, and of its last  *)
(* drift, a change made without a bump.                                    *)
(*                                                                         *)
(* A request that is refused (stale revision, malformed parameter, failing *)
(* backend operation) changes nothing and is no step, except where the     *)
(* code has already changed something when it fails.                       *)
(***************************************************************************)
EXTENDS Naturals, Sequences, SequencesExt

CONSTANTS
    Agents,       \* the clients whose requests the broker forwards
    Requests,     \* distinct cacheable analysis requests
    Backends,     \* which backends the worker may have been built with
    MaxEdits,     \* bound: changes of the database, counted or not
    MaxPlan,      \* bound: operations of one plan
    MaxSnapshots, \* bound: the mock's snapshot stack
    MaxRevision   \* bound: the revision counter

ASSUME DispatchAssumption ==
    /\ Backends \subseteq {"mock", "idalib"}
    /\ MaxEdits \in Nat /\ MaxPlan \in Nat
    /\ MaxSnapshots \in Nat /\ MaxRevision \in Nat

VARIABLES
    backend,    \* state.backend: chosen by backend.select
    open,       \* the backend holds a database
    path,       \* the backend remembers the path of its database
    db,         \* its content
    edits,      \* changes made so far: the source of fresh stamps
    revision,   \* the backend's revision counter
    snapshots,  \* mock: the snapshot stack; idalib: the last snapshot file
    index,      \* state.index
    cache,      \* state.workflow_cache
    audit,      \* state.audit: the revision_after of each entry
    view,       \* what each agent last saw: the revision and the content
    informed,   \* no counted edit between an agent's look and guarded edit
    current,    \* the last analysis reflects every counted edit
    undo        \* the content before the transform the next rollback undoes

state ==
    <<backend, open, path, db, edits, revision, snapshots, index, cache, audit>>
ghosts == <<view, informed, current, undo>>
vars == <<state, ghosts>>

Content == [edit : 0 .. MaxEdits, drift : 0 .. MaxEdits]
Snapshot == [revision : 0 .. MaxRevision, db : Content]
None == <<>>

Init ==
    /\ backend \in Backends
    /\ open = TRUE /\ path = TRUE
    /\ db = [edit |-> 0, drift |-> 0]
    /\ edits = 0
    /\ revision = 0
    /\ snapshots = <<>>
    /\ index = None
    /\ cache = {}
    /\ audit = <<>>
    /\ view = [a \in Agents |-> [revision |-> 0, db |-> db]]
    /\ informed = TRUE
    /\ current = TRUE
    /\ undo = None

-----------------------------------------------------------------------------
(* Edits. *)

(* The content after a change: one that bumps the revision, or one that     *)
(* does not.                                                                *)
Edited(n) == [edit |-> n, drift |-> db.drift]
Drifted(n) == [edit |-> db.edit, drift |-> n]

(* check_revision and check_plan_revision: an edit that carries the         *)
(* revision its agent saw is refused when that revision has moved.          *)
Guard(a, guarded) == guarded => view[a].revision = revision

Note(a, guarded) ==
    informed' = IF guarded THEN view[a].db.edit = db.edit ELSE informed

(* handle: a mutating method that succeeded empties the workflow cache.     *)
InvalidateAll == cache' = {}

(* patch_bytes, set_comment, rename, set_type, func.create/delete/resize,   *)
(* hr.lvar_rename and deep.retype: guard, edit, bump, audit.                *)
Mutate(a, guarded) ==
    /\ open /\ Guard(a, guarded)
    /\ edits < MaxEdits /\ revision < MaxRevision
    /\ edits' = edits + 1
    /\ db' = Edited(edits + 1)
    /\ revision' = revision + 1
    /\ audit' = Append(audit, revision + 1)
    /\ InvalidateAll
    /\ Note(a, guarded)
    /\ UNCHANGED <<backend, open, path, snapshots, index, view, current, undo>>

(* func.resize with idalib sets the start before the end: when the end is   *)
(* refused the start has moved, and the request is an error without bump,   *)
(* audit entry or invalidation.                                             *)
ResizeHalfFails(a, guarded) ==
    /\ open /\ Guard(a, guarded)
    /\ backend = "idalib"
    /\ edits < MaxEdits
    /\ edits' = edits + 1
    /\ db' = Drifted(edits + 1)
    /\ UNCHANGED <<backend, open, path, revision, snapshots, index, cache,
                   audit, ghosts>>

(* run_plugin with idalib: the plugin may change the database; the method   *)
(* is not among the mutating ones.                                          *)
RunPlugin ==
    /\ open
    /\ backend = "idalib"
    /\ edits < MaxEdits
    /\ edits' = edits + 1
    /\ db' = Drifted(edits + 1)
    /\ UNCHANGED <<backend, open, path, revision, snapshots, index, cache,
                   audit, ghosts>>

(* types.apply creates a type: guarded and counted, but not audited.        *)
TypesApply(a, guarded) ==
    /\ open /\ Guard(a, guarded)
    /\ edits < MaxEdits /\ revision < MaxRevision
    /\ edits' = edits + 1
    /\ db' = Edited(edits + 1)
    /\ revision' = revision + 1
    /\ InvalidateAll
    /\ Note(a, guarded)
    /\ UNCHANGED <<backend, open, path, snapshots, index, audit, view, current,
                   undo>>

(* Mutants of ApplyOps: the failing operation is audited too; an entry      *)
(* carries the revision before its operation.                               *)
ApplyOpsAuditsFailure(n, r) ==
    /\ edits + n <= MaxEdits /\ r + n <= MaxRevision
    /\ edits' = edits + n
    /\ db' = IF n = 0 THEN db ELSE Edited(edits + n)
    /\ revision' = r + n
    /\ audit' = audit \o [i \in 1 .. n + 1 |-> r + i]

ApplyOpsAuditsBefore(n, r) ==
    /\ edits + n <= MaxEdits /\ r + n <= MaxRevision
    /\ edits' = edits + n
    /\ db' = IF n = 0 THEN db ELSE Edited(edits + n)
    /\ revision' = r + n
    /\ audit' = audit \o [i \in 1 .. n |-> r + i - 1]

(* plan::apply from revision r: n operations succeed, each bumping the      *)
(* revision and adding an audit entry; operation n + 1, if the plan has     *)
(* one, fails and stops the plan, which is reported as a partial success.   *)
ApplyOps(n, r) ==
    /\ edits + n <= MaxEdits /\ r + n <= MaxRevision
    /\ edits' = edits + n
    /\ db' = IF n = 0 THEN db ELSE Edited(edits + n)
    /\ revision' = r + n
    /\ audit' = audit \o [i \in 1 .. n |-> r + i]

(* Mutant of PlanApply: the trail moved out of the state is not put back    *)
(* when the plan stops half-way.                                            *)
PlanApplyLosesAudit(a, guarded, n) ==
    /\ open /\ Guard(a, guarded)
    /\ edits + n <= MaxEdits /\ revision + n <= MaxRevision
    /\ edits' = edits + n
    /\ db' = IF n = 0 THEN db ELSE Edited(edits + n)
    /\ revision' = revision + n
    /\ audit' = <<>>
    /\ InvalidateAll
    /\ Note(a, guarded)
    /\ UNCHANGED <<backend, open, path, snapshots, index, view, current, undo>>

(* plan.apply: one guard for the whole plan, before its first operation.    *)
PlanApply(a, guarded, n) ==
    /\ open /\ Guard(a, guarded)
    /\ ApplyOps(n, revision)
    /\ InvalidateAll
    /\ Note(a, guarded)
    /\ UNCHANGED <<backend, open, path, snapshots, index, view, current, undo>>

-----------------------------------------------------------------------------
(* Snapshots and transforms. *)

(* The revision once a snapshot is taken: idalib's bumps it, mock's does    *)
(* not.                                                                     *)
Snapped == IF backend = "idalib" THEN revision + 1 ELSE revision

(* mock pushes on a stack; idalib remembers the last file only.             *)
Stacked ==
    LET snap == [revision |-> revision, db |-> db]
    IN  IF backend = "idalib" THEN <<snap>> ELSE Append(snapshots, snap)

SnapshotCreate ==
    /\ open
    /\ Snapped <= MaxRevision
    /\ Len(Stacked) <= MaxSnapshots
    /\ snapshots' = Stacked
    /\ revision' = Snapped
    /\ undo' = None
    /\ UNCHANGED <<backend, open, path, db, edits, index, cache, audit, view,
                   informed, current>>

(* Mutant of DeobApply: the snapshot is taken after the operations.         *)
DeobApplySnapshotsLate(a, guarded, n) ==
    /\ open /\ Guard(a, guarded)
    /\ Len(Stacked) <= MaxSnapshots
    /\ ApplyOps(n, Snapped)
    /\ snapshots' = [Stacked EXCEPT ![Len(Stacked)].db = db']
    /\ InvalidateAll
    /\ Note(a, guarded)
    /\ undo' = db
    /\ UNCHANGED <<backend, open, path, index, view, current>>

(* transforms::apply: guard, then snapshot, then the plan's operations.     *)
DeobApply(a, guarded, n) ==
    /\ open /\ Guard(a, guarded)
    /\ Len(Stacked) <= MaxSnapshots
    /\ snapshots' = Stacked
    /\ ApplyOps(n, Snapped)
    /\ InvalidateAll
    /\ Note(a, guarded)
    /\ undo' = db
    /\ UNCHANGED <<backend, open, path, index, view, current>>

(* transforms::apply whose operations do not parse: it fails after the      *)
(* snapshot, so the request is an error and the cache is not emptied.       *)
DeobApplyMalformed(a, guarded) ==
    /\ open /\ Guard(a, guarded)
    /\ Snapped <= MaxRevision
    /\ Len(Stacked) <= MaxSnapshots
    /\ snapshots' = Stacked
    /\ revision' = Snapped
    /\ undo' = db
    /\ UNCHANGED <<backend, open, path, db, edits, index, cache, audit, view,
                   informed, current>>

(* Mutant of Restored: the rollback does not count as a change.             *)
RestoredUncounted ==
    IF backend = "idalib" THEN revision ELSE Last(snapshots).revision

(* The revision once the last snapshot is restored: mock goes back to the   *)
(* snapshot's revision and bumps that; idalib bumps its own counter.        *)
Restored ==
    IF backend = "idalib" THEN revision + 1 ELSE Last(snapshots).revision + 1

(* Only the path is needed: idalib restores again after a restore that      *)
(* failed and left no database; the mock forgets both at once.              *)
SnapshotRestore ==
    /\ path
    /\ snapshots # <<>>
    /\ Restored <= MaxRevision
    /\ open' = TRUE
    /\ db' = Last(snapshots).db
    /\ revision' = Restored
    /\ snapshots' = IF backend = "idalib" THEN snapshots ELSE Front(snapshots)
    /\ InvalidateAll
    /\ undo' = None
    /\ UNCHANGED <<backend, path, edits, index, audit, view, informed,
                   current>>

(* Nothing to restore is a success, for idalib without a database too:      *)
(* nothing changes but the cache.                                           *)
RestoreNothing ==
    /\ backend = "mock" => open
    /\ snapshots = <<>>
    /\ InvalidateAll
    /\ UNCHANGED <<backend, open, path, db, edits, revision, snapshots, index,
                   audit, ghosts>>

(* idalib drops the database before it copies the file and reopens it: when *)
(* either fails no database is open, and the revision is as it was.         *)
RestoreFails ==
    /\ path
    /\ backend = "idalib"
    /\ snapshots # <<>>
    /\ open' = FALSE
    /\ UNCHANGED <<backend, path, db, edits, revision, snapshots, index, cache,
                   audit, ghosts>>

(* What analyze_wait leaves: with idalib the pending auto-analysis may      *)
(* change the database, and so may the recovery of functions when there are *)
(* none.                                                                    *)
Analyzed ==
    IF backend = "idalib" /\ edits < MaxEdits
    THEN {db, Drifted(edits + 1)}
    ELSE {db}

(* analyze_wait: the revision is not bumped.                                *)
AnalyzeWait ==
    /\ open
    /\ db' \in Analyzed
    /\ edits' = IF db' = db THEN edits ELSE edits + 1
    /\ InvalidateAll
    /\ UNCHANGED <<backend, open, path, revision, snapshots, index, audit,
                   ghosts>>

-----------------------------------------------------------------------------
(* Analyses. *)

Built == [revision |-> revision, db |-> db]

(* Mutant of FreshIndex: an index is used whatever its revision.            *)
AnyIndex == IF index # None THEN index ELSE Built

(* The index an analysis uses: rebuilt if there is none, or if its revision *)
(* is not the current one.                                                  *)
FreshIndex ==
    IF index # None /\ index.revision = revision THEN index ELSE Built

Answer(contents) == current' = \A c \in contents : c.edit = db.edit

(* index.build rebuilds the index whatever there is.                        *)
IndexBuild ==
    /\ open
    /\ index' = Built
    /\ UNCHANGED <<backend, open, path, db, edits, revision, snapshots, cache,
                   audit, ghosts>>

(* index.query, types.propose, intel.*, deob.run, deob.propose and the      *)
(* resumed deep.function: from the index, not cached.                       *)
IndexQuery ==
    /\ open
    /\ index' = FreshIndex
    /\ Answer({FreshIndex.db, db})
    /\ UNCHANGED <<backend, open, path, db, edits, revision, snapshots, cache,
                   audit, view, informed, undo>>

Hit(r) == {e \in cache : e.request = r /\ e.revision = revision}

Put(r, contents) ==
    cache' = cache \cup {[request |-> r, revision |-> revision, used |-> contents]}

(* workflow.run, deep.function, deep.dataflow and value.propagate: the      *)
(* index is refreshed first; then the cache answers, or the analysis runs   *)
(* and its result is cached.  A hit is served even when the backend has no  *)
(* database.                                                                *)
WorkflowRun(r) ==
    /\ open \/ (Hit(r) # {} /\ FreshIndex = index)
    /\ index' = FreshIndex
    /\ IF Hit(r) # {}
       THEN /\ \E e \in Hit(r) : Answer(e.used)
            /\ UNCHANGED cache
       ELSE /\ Answer({FreshIndex.db, db})
            /\ Put(r, {FreshIndex.db, db})
    /\ UNCHANGED <<backend, open, path, db, edits, revision, snapshots, audit,
                   view, informed, undo>>

(* An agent reads the database and its revision.                            *)
Look(a) ==
    /\ open
    /\ view' = [view EXCEPT ![a] = [revision |-> revision, db |-> db]]
    /\ UNCHANGED <<state, informed, current, undo>>

(* db.close.                                                                *)
Close ==
    /\ path
    /\ open' = FALSE /\ path' = FALSE
    /\ UNCHANGED <<backend, db, edits, revision, snapshots, index, cache,
                   audit, ghosts>>

Edit(a, guarded) ==
    \/ Mutate(a, guarded)
    \/ ResizeHalfFails(a, guarded)
    \/ TypesApply(a, guarded)
    \/ \E n \in 0 .. MaxPlan : PlanApply(a, guarded, n)
    \/ \E n \in 0 .. MaxPlan : DeobApply(a, guarded, n)
    \/ DeobApplyMalformed(a, guarded)

Next ==
    \/ \E a \in Agents : \/ Look(a)
                         \/ \E guarded \in BOOLEAN : Edit(a, guarded)
    \/ SnapshotCreate
    \/ SnapshotRestore
    \/ RestoreNothing
    \/ RestoreFails
    \/ AnalyzeWait
    \/ RunPlugin
    \/ IndexBuild
    \/ IndexQuery
    \/ \E r \in Requests : WorkflowRun(r)
    \/ Close

Spec == Init /\ [][Next]_vars

-----------------------------------------------------------------------------
(* Properties. *)

(* The worker's state has its type; the audit holds one entry per audited   *)
(* edit at most.                                                            *)
TypeOK ==
    /\ backend \in Backends /\ open \in BOOLEAN /\ path \in BOOLEAN
    /\ open => path
    /\ db \in Content /\ edits \in 0 .. MaxEdits
    /\ revision \in 0 .. MaxRevision
    /\ snapshots \in Seq(Snapshot)
    /\ index = None \/ index \in Snapshot
    /\ \A e \in cache : e.request \in Requests /\ e.used \subseteq Content
    /\ audit \in Seq(1 .. MaxRevision) /\ Len(audit) <= edits
    /\ undo = None \/ undo \in Content

(* An analysis of the real backend reflects every counted edit made before  *)
(* it is answered and none that was rolled back, whether it comes from a    *)
(* refreshed index, from a kept one or from the cache, after any history of *)
(* edits, plans, snapshots and rollbacks (dispatch.rs, the staleness test   *)
(* and the cache key).  Nothing is claimed of drift: what analyze_wait, a   *)
(* plugin or a half-failed func.resize changes may be missing, which is     *)
(* what IndexIsCurrent is about.                                            *)
AnswersAreCurrent ==
    backend = "idalib" => current

(* An edit that carries expected_revision is made only if no counted edit,  *)
(* rollback or half-applied plan, of any agent, came between it and its     *)
(* agent's last look (dispatch.rs check_revision, plan.rs                   *)
(* check_plan_revision).  The guard does not see drift: func.resize that    *)
(* fails half-way, analyze_wait and plugins change the database under the   *)
(* same revision.                                                           *)
GuardedEditIsInformed ==
    backend = "idalib" => informed

(* The audit trail is never shortened or rewritten: not by a plan that      *)
(* stops half-way, whose trail is moved out of the state and back           *)
(* (dispatch.rs plan.apply), and not by a rollback.                         *)
AuditIsKept == [][IsPrefix(audit, audit')]_vars

(* With the real backend the trail's revisions increase and none lies ahead *)
(* of the counter, so an entry names one revision of the session            *)
(* (plan.rs apply and record_audit, idalib_backend.rs bump).                *)
AuditIsOrdered ==
    backend = "idalib" =>
        /\ \A i, j \in 1 .. Len(audit) : i < j => audit[i] < audit[j]
        /\ \A i \in 1 .. Len(audit) : audit[i] <= revision

(* Rolling back a transform, complete, half-applied or malformed, gives     *)
(* back the content from before it, later edits undone too, as long as no   *)
(* other snapshot was taken since (transforms.rs apply: "Rollback token     *)
(* exists before any byte changes").                                        *)
RollbackUndoesTransform ==
    [][SnapshotRestore /\ undo # None => db' = undo]_vars

(* Violated: the index that passes the staleness test describes the current *)
(* database.  analyze_wait, a plugin and a func.resize that fails half-way  *)
(* change the database and leave the revision alone, so an index built      *)
(* before them stays "current".                                             *)
IndexIsCurrent ==
    index # None /\ index.revision = revision => index.db = db

=============================================================================
