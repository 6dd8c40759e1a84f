------------------------ MODULE WorkerDispatchProofs ------------------------
(***************************************************************************)
(* The worker's revisions, for every number of agents, requests, edits,    *)
(* snapshots and plans: analyses reflect every counted edit, guarded edits *)
(* come after no counted edit their agent did not see, the audit trail     *)
(* only grows, a rollback undoes its transform, and the types.             *)
(***************************************************************************)
EXTENDS WorkerDispatch, TLAPS

Contents == [edit : Nat, drift : Nat]
Seen == [revision : Nat, db : Contents]

\* The part of the types that the argument needs, without the bounds.
DispatchTypes ==
    /\ revision \in Nat /\ edits \in Nat
    /\ db \in Contents
    /\ snapshots \in Seq(Seen)
    /\ audit \in Seq(Nat)
    /\ view \in [Agents -> Seen]

\* What was recorded under the current revision has the current content's counted
\* edit, and no record is of a later revision.
Recorded ==
    /\ \A a \in Agents : /\ view[a].revision <= revision
                         /\ view[a].revision = revision => view[a].db.edit = db.edit
    /\ index # None => /\ index.revision \in Nat
                       /\ index.revision <= revision
                       /\ index.revision = revision => index.db.edit = db.edit
    /\ \A e \in cache : /\ e.revision \in Nat
                        /\ e.revision <= revision
                        /\ e.revision = revision => \A c \in e.used : c.edit = db.edit

\* The snapshot that a rollback restores is the one of the transform.
UndoAgrees == undo # None => snapshots # <<>> /\ Last(snapshots).db = undo

\* The inductive invariants: of every worker, and of one over the real backend.
DispatchInv == DispatchTypes /\ AuditIsOrdered /\ UndoAgrees
CurrentInv == backend = "idalib" => Recorded /\ current = TRUE /\ informed = TRUE

\* A worker starts with nothing recorded but the views of its agents.
LEMMA DispatchInitInv == Init => DispatchInv
<1> SUFFICES ASSUME Init PROVE DispatchInv
  OBVIOUS
<1>1. DispatchTypes
  BY DispatchAssumption DEF Init, DispatchTypes, Contents, Seen
<1>2. AuditIsOrdered /\ UndoAgrees
  BY DEF Init, AuditIsOrdered, UndoAgrees, None
<1>3. QED
  BY <1>1, <1>2 DEF DispatchInv

\* Nor is anything recorded that could be stale.
LEMMA CurrentInitInv == Init => CurrentInv
<1> SUFFICES ASSUME Init PROVE CurrentInv
  OBVIOUS
<1>1. Recorded
  <2>1. \A a \in Agents : view[a].revision = revision /\ view[a].db = db
    BY Zenon DEF Init
  <2>2. revision = 0 /\ index = None /\ cache = {}
    BY DEF Init
  <2>3. QED
    BY <2>1, <2>2 DEF Recorded
<1>2. QED
  BY <1>1 DEF CurrentInv, Init

\* The snapshots with one more, and with the last one gone.
LEMMA SnapshotStack ==
    ASSUME DispatchTypes
    PROVE  /\ Stacked \in Seq(Seen) /\ Stacked # <<>> /\ Last(Stacked).db = db
           /\ snapshots # <<>> => Last(snapshots) \in Seen /\ Front(snapshots) \in Seq(Seen)
<1> DEFINE snap == [revision |-> revision, db |-> db]
<1>0. snapshots \in Seq(Seen) /\ snap \in Seen
  BY DEF DispatchTypes, Seen
<1>s. snap.db = db
  OBVIOUS
<1> HIDE DEF snap
<1>1. Stacked \in Seq(Seen) /\ Stacked # <<>> /\ Last(Stacked).db = db
  <2>1. CASE backend = "idalib"
    <3>1. Stacked = <<snap>>
      BY <2>1 DEF Stacked, snap
    <3>2. Stacked \in Seq(Seen) /\ Len(Stacked) = 1 /\ Stacked[1] = snap
      BY <1>0, <3>1
    <3>3. QED
      BY <1>s, <3>2 DEF Last
  <2>2. CASE backend # "idalib"
    <3>1. Stacked = Append(snapshots, snap)
      BY <2>2 DEF Stacked, snap
    <3>2. /\ Stacked \in Seq(Seen) /\ Len(snapshots) \in Nat
          /\ Len(Stacked) = Len(snapshots) + 1 /\ Stacked[Len(snapshots) + 1] = snap
      BY <1>0, <3>1
    <3>3. QED
      BY <1>s, <3>2 DEF Last
  <2>3. QED
    BY <2>1, <2>2, Zenon
<1>2. ASSUME snapshots # <<>>
      PROVE  Last(snapshots) \in Seen /\ Front(snapshots) \in Seq(Seen)
  BY <1>0, <1>2 DEF Last, Front
<1>3. QED
  BY <1>1, <1>2, Zenon

\* A trail that got longer by the revisions r + 1 to r + n.
LEMMA AuditLonger ==
    ASSUME audit \in Seq(Nat), audit' \in Seq(Nat), NEW n \in Nat, NEW r \in Nat,
           Len(audit') = Len(audit) + n,
           \A i \in 1..Len(audit) : audit'[i] = audit[i],
           \A i \in (Len(audit) + 1)..(Len(audit) + n) : audit'[i] = r + (i - Len(audit))
    PROVE  /\ IsPrefix(audit, audit')
           /\ AuditIsOrdered /\ revision \in Nat /\ backend' = backend
                /\ (backend = "idalib" => r >= revision) /\ revision' = r + n
              => AuditIsOrdered'
<1>1. Len(audit) \in Nat
  OBVIOUS
<1>2. ASSUME NEW i \in 1..Len(audit')
      PROVE  \/ i \in 1..Len(audit) /\ audit'[i] = audit[i]
             \/ i > Len(audit) /\ audit'[i] = r + (i - Len(audit))
  <2>1. CASE i <= Len(audit)
    <3>1. i \in 1..Len(audit)
      BY <1>1, <2>1
    <3>2. QED
      BY <3>1
  <2>2. CASE i > Len(audit)
    <3>1. i \in (Len(audit) + 1)..(Len(audit) + n)
      BY <1>1, <2>2
    <3>2. QED
      BY <2>2, <3>1
  <2>3. QED
    BY <1>1, <2>1, <2>2
<1>3. IsPrefix(audit, audit')
  BY <1>1 DEF IsPrefix
<1>4. ASSUME AuditIsOrdered, revision \in Nat, backend' = backend, backend = "idalib",
             r >= revision, revision' = r + n
      PROVE  AuditIsOrdered'
  <2>1. \A i \in 1..Len(audit) : audit[i] \in Nat /\ audit[i] <= revision
    <3>1. \A i \in 1..Len(audit) : audit[i] \in Nat
      OBVIOUS
    <3>2. \A i \in 1..Len(audit) : audit[i] <= revision
      BY <1>4, SMTT(60) DEF AuditIsOrdered
    <3>3. QED
      BY <3>1, <3>2, SMTT(60)
  <2>2. ASSUME NEW i \in 1..Len(audit'), NEW j \in 1..Len(audit'), i < j
        PROVE  audit'[i] < audit'[j]
    <3>1. CASE j \in 1..Len(audit)
      <4>1. i \in 1..Len(audit)
        BY <1>1, <2>2, <3>1
      <4>2. audit[i] < audit[j]
        BY <1>4, <2>2, <3>1, <4>1 DEF AuditIsOrdered
      <4>3. QED
        BY <3>1, <4>1, <4>2
    <3>2. CASE j > Len(audit) /\ audit'[j] = r + (j - Len(audit))
      <4>1. CASE i \in 1..Len(audit) /\ audit'[i] = audit[i]
        <5>1. audit[i] \in Nat /\ audit[i] <= revision
          BY <2>1, <4>1
        <5>2. audit'[j] > r
          BY <1>1, <3>2, SMTT(60)
        <5>3. audit'[j] \in Nat /\ audit'[i] <= r
          BY <1>1, <1>4, <3>2, <4>1, <5>1, SMTT(60)
        <5>4. QED
          BY <4>1, <5>1, <5>2, <5>3, SMTT(60)
      <4>2. CASE i > Len(audit) /\ audit'[i] = r + (i - Len(audit))
        BY <1>1, <2>2, <3>2, <4>2, SMTT(60)
      <4>3. QED
        BY <1>2, <4>1, <4>2
    <3>3. QED
      BY <1>2, <3>1, <3>2
  <2>3. ASSUME NEW i \in 1..Len(audit')
        PROVE  audit'[i] <= revision'
    <3>1. CASE i \in 1..Len(audit) /\ audit'[i] = audit[i]
      <4>1. audit[i] \in Nat /\ audit[i] <= revision
        BY <2>1, <3>1
      <4>2. QED
        BY <1>4, <3>1, <4>1, SMTT(60)
    <3>2. CASE i > Len(audit) /\ audit'[i] = r + (i - Len(audit))
      <4>1. i <= Len(audit) + n
        BY <1>1
      <4>2. QED
        BY <1>1, <1>4, <3>2, <4>1, SMTT(60)
    <3>3. QED
      BY <1>2, <3>1, <3>2
  <2>4. QED
    BY <2>2, <2>3 DEF AuditIsOrdered
<1>5. QED
  BY <1>3, <1>4 DEF AuditIsOrdered

\* Adding the revisions r + 1 to r + n: those of a plan, or one by Append.
LEMMA AuditGrows ==
    ASSUME audit \in Seq(Nat), NEW n \in Nat, NEW r \in Nat,
           \/ audit' = audit \o [i \in 1..n |-> r + i]
           \/ n = 1 /\ audit' = Append(audit, r + 1)
    PROVE  /\ audit' \in Seq(Nat)
           /\ IsPrefix(audit, audit')
           /\ AuditIsOrdered /\ revision \in Nat /\ backend' = backend
                /\ (backend = "idalib" => r >= revision) /\ revision' = r + n
              => AuditIsOrdered'
<1> DEFINE added == [i \in 1..n |-> r + i]
<1>1. added \in Seq(Nat) /\ Len(added) = n /\ \A i \in 1..n : added[i] = r + i
  OBVIOUS
<1>2. /\ audit' \in Seq(Nat) /\ Len(audit) \in Nat /\ Len(audit') = Len(audit) + n
      /\ \A i \in 1..Len(audit) : audit'[i] = audit[i]
      /\ \A i \in (Len(audit) + 1)..(Len(audit) + n) : audit'[i] = r + (i - Len(audit))
  <2>1. CASE audit' = audit \o added
    BY <1>1, <2>1
  <2>2. CASE n = 1 /\ audit' = Append(audit, r + 1)
    BY <2>2
  <2>3. QED
    BY <2>1, <2>2, Zenon
<1>3. QED
  BY <1>2, AuditLonger, Zenon

\* The trail stays ordered when it is left alone and the counter of the real
\* backend does not go back.
LEMMA AuditStays ==
    ASSUME DispatchTypes, AuditIsOrdered, audit' = audit, backend' = backend,
           revision' \in Nat, backend = "idalib" => revision' >= revision
    PROVE  AuditIsOrdered'
  BY DEF AuditIsOrdered, DispatchTypes

\* Every request keeps the types, the order of the trail and its undo point.
LEMMA DispatchStep == DispatchInv /\ [Next]_vars => DispatchInv'
<1> SUFFICES ASSUME DispatchInv, [Next]_vars PROVE DispatchInv'
  OBVIOUS
<1>0. DispatchTypes /\ AuditIsOrdered /\ UndoAgrees
  BY DEF DispatchInv
<1>s. /\ Snapped \in Nat /\ (backend = "idalib" => Snapped >= revision)
      /\ Stacked \in Seq(Seen) /\ Stacked # <<>> /\ Last(Stacked).db = db
  <2>1. Snapped \in Nat /\ (backend = "idalib" => Snapped >= revision)
    BY <1>0 DEF DispatchTypes, Snapped
  <2>2. Stacked \in Seq(Seen) /\ Stacked # <<>> /\ Last(Stacked).db = db
    BY <1>0, SnapshotStack
  <2>3. QED
    BY <2>1, <2>2
<1>p. /\ 0..MaxPlan \subseteq Nat
      /\ \A n \in Nat : Edited(n) \in Contents /\ Drifted(n) \in Contents
  BY <1>0, DispatchAssumption DEF Edited, Drifted, DispatchTypes, Contents
<1>1. ASSUME NEW a \in Agents, Look(a)
      PROVE  DispatchInv'
  <2>1. DispatchTypes'
    BY <1>1, <1>0 DEF Look, state, DispatchTypes, Seen
  <2>2. AuditIsOrdered'
    BY <1>1, <1>0, <2>1, AuditStays DEF Look, state, DispatchTypes
  <2>3. UndoAgrees'
    BY <1>1, <1>0 DEF Look, state, UndoAgrees
  <2>4. QED
    BY <2>1, <2>2, <2>3 DEF DispatchInv
<1>2. ASSUME NEW a \in Agents, NEW guarded \in BOOLEAN, Mutate(a, guarded)
      PROVE  DispatchInv'
  <2>1. revision + 1 \in Nat /\ edits + 1 \in Nat /\ Edited(edits + 1) \in Contents
    BY <1>0, <1>p DEF DispatchTypes
  <2>2. /\ audit' = Append(audit, revision + 1) /\ revision' = revision + 1
        /\ backend' = backend
    BY <1>2 DEF Mutate
  <2>3. AuditIsOrdered' /\ audit' \in Seq(Nat)
    <3>1. audit \in Seq(Nat) /\ 1 \in Nat /\ revision \in Nat /\ revision >= revision
      BY <1>0 DEF DispatchTypes
    <3>2. QED
      BY <1>0, <2>2, <3>1, AuditGrows
  <2>4. DispatchTypes'
    BY <1>2, <1>0, <2>1, <2>3 DEF Mutate, DispatchTypes
  <2>5. UndoAgrees'
    BY <1>2, <1>0 DEF Mutate, UndoAgrees
  <2>6. QED
    BY <2>3, <2>4, <2>5 DEF DispatchInv
<1>3. ASSUME NEW a \in Agents, NEW guarded \in BOOLEAN, TypesApply(a, guarded)
      PROVE  DispatchInv'
  <2>1. revision + 1 \in Nat /\ edits + 1 \in Nat /\ Edited(edits + 1) \in Contents
    BY <1>0, <1>p DEF DispatchTypes
  <2>2. DispatchTypes'
    BY <1>3, <1>0, <2>1 DEF TypesApply, DispatchTypes
  <2>3. AuditIsOrdered'
    BY <1>3, <1>0, <2>2, AuditStays DEF TypesApply, DispatchTypes
  <2>4. UndoAgrees'
    BY <1>3, <1>0 DEF TypesApply, UndoAgrees
  <2>5. QED
    BY <2>2, <2>3, <2>4 DEF DispatchInv
<1>3a. ASSUME NEW a \in Agents, NEW guarded \in BOOLEAN, ResizeHalfFails(a, guarded)
       PROVE  DispatchInv'
  <2>1. edits + 1 \in Nat /\ Drifted(edits + 1) \in Contents
    BY <1>0, <1>p DEF DispatchTypes
  <2>2. DispatchTypes'
    BY <1>3a, <1>0, <2>1 DEF ResizeHalfFails, ghosts, DispatchTypes
  <2>3. AuditIsOrdered'
    BY <1>3a, <1>0, <2>2, AuditStays DEF ResizeHalfFails, DispatchTypes
  <2>4. UndoAgrees'
    BY <1>3a, <1>0 DEF ResizeHalfFails, ghosts, UndoAgrees
  <2>5. QED
    BY <2>2, <2>3, <2>4 DEF DispatchInv
<1>3b. CASE RunPlugin
  <2>1. edits + 1 \in Nat /\ Drifted(edits + 1) \in Contents
    BY <1>0, <1>p DEF DispatchTypes
  <2>2. DispatchTypes'
    BY <1>3b, <1>0, <2>1 DEF RunPlugin, ghosts, DispatchTypes
  <2>3. AuditIsOrdered'
    BY <1>3b, <1>0, <2>2, AuditStays DEF RunPlugin, DispatchTypes
  <2>4. UndoAgrees'
    BY <1>3b, <1>0 DEF RunPlugin, ghosts, UndoAgrees
  <2>5. QED
    BY <2>2, <2>3, <2>4 DEF DispatchInv
<1>4. ASSUME NEW a \in Agents, NEW guarded \in BOOLEAN, NEW n \in 0..MaxPlan,
             PlanApply(a, guarded, n)
      PROVE  DispatchInv'
  <2>1. /\ n \in Nat /\ revision + n \in Nat /\ edits + n \in Nat
        /\ Edited(edits + n) \in Contents
    BY <1>0, <1>p DEF DispatchTypes
  <2>2. AuditIsOrdered' /\ audit' \in Seq(Nat)
    <3>1. audit \in Seq(Nat) /\ revision \in Nat /\ revision >= revision
      BY <1>0 DEF DispatchTypes
    <3>2. /\ audit' = audit \o [i \in 1..n |-> revision + i]
          /\ revision' = revision + n /\ backend' = backend
      BY <1>4 DEF PlanApply, ApplyOps
    <3>3. QED
      BY <1>0, <2>1, <3>1, <3>2, AuditGrows, Zenon
  <2>3. DispatchTypes'
    BY <1>4, <1>0, <2>1, <2>2 DEF PlanApply, ApplyOps, DispatchTypes
  <2>4. UndoAgrees'
    BY <1>4, <1>0 DEF PlanApply, UndoAgrees
  <2>5. QED
    BY <2>2, <2>3, <2>4 DEF DispatchInv
<1>5. ASSUME NEW a \in Agents, NEW guarded \in BOOLEAN, NEW n \in 0..MaxPlan,
             DeobApply(a, guarded, n)
      PROVE  DispatchInv'
  <2>1. /\ n \in Nat /\ Snapped + n \in Nat /\ edits + n \in Nat
        /\ Edited(edits + n) \in Contents
    BY <1>0, <1>s, <1>p DEF DispatchTypes
  <2>2. AuditIsOrdered' /\ audit' \in Seq(Nat)
    BY <1>5, <1>0, <1>s, <2>1, AuditGrows, Zenon DEF DeobApply, ApplyOps, DispatchTypes
  <2>3. DispatchTypes'
    BY <1>5, <1>0, <1>s, <2>1, <2>2 DEF DeobApply, ApplyOps, DispatchTypes
  <2>4. UndoAgrees'
    BY <1>5, <1>s DEF DeobApply, UndoAgrees
  <2>5. QED
    BY <2>2, <2>3, <2>4 DEF DispatchInv
<1>6. ASSUME NEW a \in Agents, NEW guarded \in BOOLEAN, DeobApplyMalformed(a, guarded)
      PROVE  DispatchInv'
  <2>1. DispatchTypes'
    BY <1>6, <1>0, <1>s DEF DeobApplyMalformed, DispatchTypes
  <2>2. AuditIsOrdered'
    BY <1>6, <1>0, <1>s, <2>1, AuditStays DEF DeobApplyMalformed
  <2>3. UndoAgrees'
    BY <1>6, <1>s DEF DeobApplyMalformed, UndoAgrees
  <2>4. QED
    BY <2>1, <2>2, <2>3 DEF DispatchInv
<1>7. CASE SnapshotCreate
  <2>1. DispatchTypes'
    BY <1>7, <1>0, <1>s DEF SnapshotCreate, DispatchTypes
  <2>2. AuditIsOrdered'
    BY <1>7, <1>0, <1>s, <2>1, AuditStays DEF SnapshotCreate
  <2>3. UndoAgrees'
    BY <1>7, <1>s DEF SnapshotCreate, UndoAgrees
  <2>4. QED
    BY <2>1, <2>2, <2>3 DEF DispatchInv
<1>8. CASE SnapshotRestore
  <2>1. /\ snapshots # <<>>
        /\ Last(snapshots) \in Seen /\ Front(snapshots) \in Seq(Seen)
    BY <1>8, <1>0, SnapshotStack DEF SnapshotRestore
  <2>2. Restored \in Nat /\ (backend = "idalib" => Restored >= revision)
    BY <1>0, <2>1 DEF DispatchTypes, Restored, Seen
  <2>3. Last(snapshots).db \in Contents
    BY <2>1 DEF Seen
  <2>4. DispatchTypes'
    BY <1>8, <1>0, <2>1, <2>2, <2>3 DEF SnapshotRestore, DispatchTypes
  <2>5. AuditIsOrdered'
    BY <1>8, <1>0, <2>2, <2>4, AuditStays DEF SnapshotRestore
  <2>6. UndoAgrees'
    BY <1>8 DEF SnapshotRestore, UndoAgrees
  <2>7. QED
    BY <2>4, <2>5, <2>6 DEF DispatchInv
<1>9. CASE RestoreNothing
  <2>1. DispatchTypes'
    BY <1>9, <1>0 DEF RestoreNothing, ghosts, DispatchTypes, Seen
  <2>2. AuditIsOrdered'
    BY <1>9, <1>0, <2>1, AuditStays DEF RestoreNothing, ghosts, DispatchTypes
  <2>3. UndoAgrees'
    BY <1>9, <1>0 DEF RestoreNothing, ghosts, UndoAgrees
  <2>4. QED
    BY <2>1, <2>2, <2>3 DEF DispatchInv
<1>10. CASE RestoreFails
  <2>1. DispatchTypes'
    BY <1>10, <1>0 DEF RestoreFails, ghosts, DispatchTypes, Seen
  <2>2. AuditIsOrdered'
    BY <1>10, <1>0, <2>1, AuditStays DEF RestoreFails, ghosts, DispatchTypes
  <2>3. UndoAgrees'
    BY <1>10, <1>0 DEF RestoreFails, ghosts, UndoAgrees
  <2>4. QED
    BY <2>1, <2>2, <2>3 DEF DispatchInv
<1>11. CASE AnalyzeWait
  <2>1. db' \in Contents /\ edits' \in Nat
    <3>1. db' = db \/ db' = Drifted(edits + 1)
      BY <1>11 DEF AnalyzeWait, Analyzed
    <3>2. edits \in Nat /\ edits + 1 \in Nat /\ db \in Contents
      BY <1>0 DEF DispatchTypes
    <3>3. edits' \in Nat
      BY <1>11, <3>2 DEF AnalyzeWait
    <3>4. QED
      BY <1>p, <3>1, <3>2, <3>3
  <2>2. DispatchTypes'
    BY <1>11, <1>0, <2>1 DEF AnalyzeWait, DispatchTypes, ghosts
  <2>3. AuditIsOrdered'
    BY <1>11, <1>0, <2>2, AuditStays DEF AnalyzeWait, DispatchTypes
  <2>4. UndoAgrees'
    BY <1>11, <1>0 DEF AnalyzeWait, UndoAgrees, ghosts
  <2>5. QED
    BY <2>2, <2>3, <2>4 DEF DispatchInv
<1>12. CASE IndexBuild
  <2>1. DispatchTypes'
    BY <1>12, <1>0 DEF IndexBuild, ghosts, DispatchTypes, Seen
  <2>2. AuditIsOrdered'
    BY <1>12, <1>0, <2>1, AuditStays DEF IndexBuild, ghosts, DispatchTypes
  <2>3. UndoAgrees'
    BY <1>12, <1>0 DEF IndexBuild, ghosts, UndoAgrees
  <2>4. QED
    BY <2>1, <2>2, <2>3 DEF DispatchInv
<1>13. CASE IndexQuery
  <2>1. DispatchTypes'
    BY <1>13, <1>0 DEF IndexQuery, DispatchTypes, Seen
  <2>2. AuditIsOrdered'
    BY <1>13, <1>0, <2>1, AuditStays DEF IndexQuery, DispatchTypes
  <2>3. UndoAgrees'
    BY <1>13, <1>0 DEF IndexQuery, UndoAgrees
  <2>4. QED
    BY <2>1, <2>2, <2>3 DEF DispatchInv
<1>14. ASSUME NEW r \in Requests, WorkflowRun(r) PROVE DispatchInv'
  <2>1. DispatchTypes'
    BY <1>14, <1>0 DEF WorkflowRun, DispatchTypes, Seen
  <2>2. AuditIsOrdered'
    BY <1>14, <1>0, <2>1, AuditStays DEF WorkflowRun, DispatchTypes
  <2>3. UndoAgrees'
    BY <1>14, <1>0 DEF WorkflowRun, UndoAgrees
  <2>4. QED
    BY <2>1, <2>2, <2>3 DEF DispatchInv
<1>15. CASE Close
  <2>1. DispatchTypes'
    BY <1>15, <1>0 DEF Close, ghosts, DispatchTypes, Seen
  <2>2. AuditIsOrdered'
    BY <1>15, <1>0, <2>1, AuditStays DEF Close, ghosts, DispatchTypes
  <2>3. UndoAgrees'
    BY <1>15, <1>0 DEF Close, ghosts, UndoAgrees
  <2>4. QED
    BY <2>1, <2>2, <2>3 DEF DispatchInv
<1>16. CASE UNCHANGED vars
  <2>1. DispatchTypes'
    BY <1>16, <1>0 DEF vars, state, ghosts, DispatchTypes, Seen
  <2>2. AuditIsOrdered'
    BY <1>16, <1>0, <2>1, AuditStays DEF vars, state, ghosts, DispatchTypes
  <2>3. UndoAgrees'
    BY <1>16, <1>0 DEF vars, state, ghosts, UndoAgrees
  <2>4. QED
    BY <2>1, <2>2, <2>3 DEF DispatchInv
<1>17. QED
  BY <1>1, <1>2, <1>3, <1>3a, <1>3b, <1>4, <1>5, <1>6, <1>7, <1>8,
     <1>9, <1>10, <1>11, <1>12, <1>13, <1>14, <1>15, <1>16
  DEF Next, Edit

\* A request that does not go back and counts what it changes leaves every record
\* honest.
LEMMA RecordsStay ==
    ASSUME DispatchTypes, Recorded, revision' \in Nat, revision' >= revision,
           revision' = revision => db'.edit = db.edit,
           view' = view, index' = index, cache' \subseteq cache
    PROVE  Recorded'
<1>1. \A a \in Agents : view[a].revision \in Nat
  BY DEF DispatchTypes, Seen
<1>2. revision \in Nat
  BY DEF DispatchTypes
<1>3. ASSUME NEW a \in Agents
      PROVE  /\ view'[a].revision <= revision'
             /\ (view'[a].revision = revision' => view'[a].db.edit = db'.edit)
  BY <1>1, <1>2 DEF Recorded
<1>4. ASSUME index' # None
      PROVE  /\ index'.revision \in Nat /\ index'.revision <= revision'
             /\ index'.revision = revision' => index'.db.edit = db'.edit
  BY <1>2, <1>4 DEF Recorded
<1>5. ASSUME NEW e \in cache'
      PROVE  /\ e.revision \in Nat /\ e.revision <= revision'
             /\ e.revision = revision' => \A c \in e.used : c.edit = db'.edit
  BY <1>2 DEF Recorded
<1>6. QED
  BY <1>3, <1>4, <1>5 DEF Recorded

\* A guarded edit follows no counted edit its agent did not see, by the record of
\* its view.
LEMMA EditIsInformed ==
    ASSUME CurrentInv, backend = "idalib", NEW a \in Agents, NEW guarded \in BOOLEAN,
           Guard(a, guarded), Note(a, guarded)
    PROVE  informed' = TRUE
<1>1. informed = TRUE /\ Recorded
  BY DEF CurrentInv
<1>2. CASE guarded = TRUE
  BY <1>1, <1>2, Zenon DEF Guard, Note, Recorded
<1>3. CASE guarded = FALSE
  BY <1>1, <1>3 DEF Note
<1>4. QED
  BY <1>2, <1>3, Zenon

\* Every request keeps the records honest.
LEMMA CurrentStep == DispatchTypes /\ CurrentInv /\ [Next]_vars => CurrentInv'
<1> SUFFICES ASSUME DispatchTypes, CurrentInv, [Next]_vars PROVE CurrentInv'
  OBVIOUS
<1>0. backend = "idalib" => Recorded /\ current = TRUE /\ informed = TRUE
  BY DEF CurrentInv
<1>t. /\ revision \in Nat /\ edits \in Nat
      /\ backend = "idalib" => Snapped = revision + 1
  BY DEF DispatchTypes, Snapped
<1>p. 0..MaxPlan \subseteq Nat
  BY DispatchAssumption
<1>1. ASSUME NEW a \in Agents, Look(a)
      PROVE  CurrentInv'
  <2>1. ASSUME backend = "idalib"
        PROVE  Recorded' /\ informed' = TRUE /\ current' = TRUE
    <3>1. ASSUME NEW b \in Agents
          PROVE  /\ view'[b].revision <= revision
                 /\ view'[b].revision = revision => view'[b].db.edit = db.edit
      <4>1. CASE b = a
        BY <1>1, <1>t, <4>1 DEF Look, DispatchTypes
      <4>2. CASE b # a
        BY <1>1, <1>0, <2>1, <4>2 DEF Look, DispatchTypes, Recorded
      <4>3. QED
        BY <4>1, <4>2
    <3>2. Recorded'
      BY <1>1, <1>0, <2>1, <3>1 DEF Look, state, Recorded
    <3>3. QED
      BY <1>1, <1>0, <2>1, <3>2 DEF Look
  <2>2. QED
    BY <1>1, <2>1, Zenon DEF CurrentInv, Look, state
<1>2. ASSUME NEW a \in Agents, NEW guarded \in BOOLEAN, Mutate(a, guarded)
      PROVE  CurrentInv'
  <2>1. ASSUME backend = "idalib"
        PROVE  Recorded' /\ informed' = TRUE /\ current' = TRUE
    <3>1. Recorded'
      BY <1>2, <1>0, <1>t, <1>p, <2>1, RecordsStay DEF Mutate, InvalidateAll
    <3>2. informed' = TRUE
      BY <1>2, <1>0, <2>1, EditIsInformed, Zenon DEF Mutate
    <3>3. QED
      BY <1>2, <1>0, <2>1, <3>1, <3>2 DEF Mutate
  <2>2. QED
    BY <1>2, <2>1, Zenon DEF CurrentInv, Mutate
<1>3. ASSUME NEW a \in Agents, NEW guarded \in BOOLEAN, TypesApply(a, guarded)
      PROVE  CurrentInv'
  <2>1. ASSUME backend = "idalib"
        PROVE  Recorded' /\ informed' = TRUE /\ current' = TRUE
    <3>1. Recorded'
      BY <1>3, <1>0, <1>t, <1>p, <2>1, RecordsStay DEF TypesApply, InvalidateAll
    <3>2. informed' = TRUE
      BY <1>3, <1>0, <2>1, EditIsInformed, Zenon DEF TypesApply
    <3>3. QED
      BY <1>3, <1>0, <2>1, <3>1, <3>2 DEF TypesApply
  <2>2. QED
    BY <1>3, <2>1, Zenon DEF CurrentInv, TypesApply
<1>3a. ASSUME NEW a \in Agents, NEW guarded \in BOOLEAN, ResizeHalfFails(a, guarded)
       PROVE  CurrentInv'
  <2>1. ASSUME backend = "idalib"
        PROVE  Recorded' /\ informed' = TRUE /\ current' = TRUE
    <3>1. Recorded'
      BY <1>3a, <1>0, <1>t, <2>1, RecordsStay DEF ResizeHalfFails, Drifted, ghosts
    <3>2. QED
      BY <1>3a, <1>0, <2>1, <3>1 DEF ResizeHalfFails, ghosts
  <2>2. QED
    BY <1>3a, <2>1, Zenon DEF CurrentInv, ResizeHalfFails, ghosts
<1>3b. CASE RunPlugin
  <2>1. ASSUME backend = "idalib"
        PROVE  Recorded' /\ informed' = TRUE /\ current' = TRUE
    <3>1. Recorded'
      BY <1>3b, <1>0, <1>t, <2>1, RecordsStay DEF RunPlugin, Drifted, ghosts
    <3>2. QED
      BY <1>3b, <1>0, <2>1, <3>1 DEF RunPlugin, ghosts
  <2>2. QED
    BY <1>3b, <2>1, Zenon DEF CurrentInv, RunPlugin, ghosts
<1>4. ASSUME NEW a \in Agents, NEW guarded \in BOOLEAN, NEW n \in 0..MaxPlan,
             PlanApply(a, guarded, n)
      PROVE  CurrentInv'
  <2>1. ASSUME backend = "idalib"
        PROVE  Recorded' /\ informed' = TRUE /\ current' = TRUE
    <3>1. Recorded'
      BY <1>4, <1>0, <1>t, <1>p, <2>1, RecordsStay DEF PlanApply, ApplyOps, InvalidateAll
    <3>2. informed' = TRUE
      BY <1>4, <1>0, <2>1, EditIsInformed, Zenon DEF PlanApply
    <3>3. QED
      BY <1>4, <1>0, <2>1, <3>1, <3>2 DEF PlanApply
  <2>2. QED
    BY <1>4, <2>1, Zenon DEF CurrentInv, PlanApply
<1>5. ASSUME NEW a \in Agents, NEW guarded \in BOOLEAN, NEW n \in 0..MaxPlan,
             DeobApply(a, guarded, n)
      PROVE  CurrentInv'
  <2>1. ASSUME backend = "idalib"
        PROVE  Recorded' /\ informed' = TRUE /\ current' = TRUE
    <3>1. Recorded'
      BY <1>5, <1>0, <1>t, <1>p, <2>1, RecordsStay DEF DeobApply, ApplyOps, InvalidateAll
    <3>2. informed' = TRUE
      BY <1>5, <1>0, <2>1, EditIsInformed, Zenon DEF DeobApply
    <3>3. QED
      BY <1>5, <1>0, <2>1, <3>1, <3>2 DEF DeobApply
  <2>2. QED
    BY <1>5, <2>1, Zenon DEF CurrentInv, DeobApply
<1>6. ASSUME NEW a \in Agents, NEW guarded \in BOOLEAN, DeobApplyMalformed(a, guarded)
      PROVE  CurrentInv'
  <2>1. ASSUME backend = "idalib"
        PROVE  Recorded' /\ informed' = TRUE /\ current' = TRUE
    <3>1. Recorded'
      BY <1>6, <1>0, <1>t, <2>1, RecordsStay DEF DeobApplyMalformed, InvalidateAll
    <3>2. QED
      BY <1>6, <1>0, <2>1, <3>1 DEF DeobApplyMalformed
  <2>2. QED
    BY <1>6, <2>1, Zenon DEF CurrentInv, DeobApplyMalformed
<1>7. CASE SnapshotCreate
  <2>1. ASSUME backend = "idalib"
        PROVE  Recorded' /\ informed' = TRUE /\ current' = TRUE
    <3>1. Recorded'
      BY <1>7, <1>0, <1>t, <2>1, RecordsStay DEF SnapshotCreate, InvalidateAll
    <3>2. QED
      BY <1>7, <1>0, <2>1, <3>1 DEF SnapshotCreate
  <2>2. QED
    BY <1>7, <2>1, Zenon DEF CurrentInv, SnapshotCreate
<1>8. CASE SnapshotRestore
  <2>1. ASSUME backend = "idalib"
        PROVE  Recorded' /\ informed' = TRUE /\ current' = TRUE
    <3>1. revision' = revision + 1
      BY <1>8, <2>1 DEF SnapshotRestore, Restored
    <3>2. Recorded'
      BY <1>8, <1>0, <1>t, <2>1, <3>1, RecordsStay DEF SnapshotRestore, InvalidateAll
    <3>3. QED
      BY <1>8, <1>0, <2>1, <3>2 DEF SnapshotRestore
  <2>2. QED
    BY <1>8, <2>1, Zenon DEF CurrentInv, SnapshotRestore
<1>9. CASE RestoreNothing
  <2>1. ASSUME backend = "idalib"
        PROVE  Recorded' /\ informed' = TRUE /\ current' = TRUE
    <3>1. Recorded'
      BY <1>9, <1>0, <1>t, <2>1, RecordsStay DEF RestoreNothing, ghosts, InvalidateAll
    <3>2. QED
      BY <1>9, <1>0, <2>1, <3>1 DEF RestoreNothing, ghosts
  <2>2. QED
    BY <1>9, <2>1, Zenon DEF CurrentInv, RestoreNothing, ghosts
<1>10. CASE RestoreFails
  <2>1. ASSUME backend = "idalib"
        PROVE  Recorded' /\ informed' = TRUE /\ current' = TRUE
    <3>1. Recorded'
      BY <1>10, <1>0, <1>t, <2>1, RecordsStay DEF RestoreFails, ghosts, InvalidateAll
    <3>2. QED
      BY <1>10, <1>0, <2>1, <3>1 DEF RestoreFails, ghosts
  <2>2. QED
    BY <1>10, <2>1 DEF CurrentInv, RestoreFails, ghosts
<1>11. CASE AnalyzeWait
  <2>1. db'.edit = db.edit
    BY <1>11 DEF AnalyzeWait, Analyzed, Drifted
  <2>2. ASSUME backend = "idalib"
        PROVE  Recorded' /\ informed' = TRUE /\ current' = TRUE
    <3>1. Recorded'
      BY <1>11, <1>0, <1>t, <2>2, RecordsStay, <2>1 DEF AnalyzeWait, ghosts, InvalidateAll
    <3>2. QED
      BY <1>11, <1>0, <2>2, <3>1 DEF AnalyzeWait, ghosts
  <2>3. QED
    BY <1>11, <2>2, Zenon DEF CurrentInv, AnalyzeWait, ghosts
<1>12. CASE IndexBuild
  <2>1. ASSUME backend = "idalib"
        PROVE  Recorded' /\ informed' = TRUE /\ current' = TRUE
    <3>1. Built.revision = revision /\ Built.db = db
      BY DEF Built
    <3>2. Recorded'
      BY <1>12, <1>0, <1>t, <2>1, <3>1 DEF IndexBuild, ghosts, Recorded
    <3>3. QED
      BY <1>12, <1>0, <2>1, <3>2 DEF IndexBuild, ghosts
  <2>2. QED
    BY <1>12, <2>1, Zenon DEF CurrentInv, IndexBuild
<1>f. backend = "idalib" => FreshIndex.revision = revision /\ FreshIndex.db.edit = db.edit
  <2>1. Built.revision = revision /\ Built.db = db
    BY DEF Built
  <2>2. QED
    BY <1>0, <2>1 DEF FreshIndex, Recorded
<1>13. CASE IndexQuery
  <2>1. ASSUME backend = "idalib"
        PROVE  Recorded' /\ informed' = TRUE /\ current' = TRUE
    <3>1. Recorded'
      BY <1>13, <1>0, <1>t, <1>f, <2>1 DEF IndexQuery, Recorded
    <3>2. current' = TRUE
      BY <1>13, <1>f, <2>1, Zenon DEF IndexQuery, Answer
    <3>3. QED
      BY <1>13, <1>0, <2>1, <3>1, <3>2 DEF IndexQuery
  <2>2. QED
    BY <1>13, <2>1, Zenon DEF CurrentInv, IndexQuery
<1>14. ASSUME NEW r \in Requests, WorkflowRun(r) PROVE CurrentInv'
  <2>1. ASSUME backend = "idalib"
        PROVE  Recorded' /\ informed' = TRUE /\ current' = TRUE
    <3>1. CASE Hit(r) # {}
      <4>1. PICK e \in Hit(r) : Answer(e.used)
        BY <1>14, <3>1 DEF WorkflowRun
      <4>2. \A c \in e.used : c.edit = db.edit
        BY <1>0, <2>1, <4>1 DEF Hit, Recorded
      <4>3. current' = TRUE
        BY <4>1, <4>2, Zenon DEF Answer
      <4>4. Recorded'
        BY <1>14, <1>0, <1>t, <1>f, <2>1, <3>1 DEF WorkflowRun, Recorded
      <4>5. QED
        BY <1>14, <1>0, <2>1, <4>3, <4>4 DEF WorkflowRun
    <3>2. CASE Hit(r) = {}
      <4> DEFINE entry == [request |-> r, revision |-> revision, used |-> {FreshIndex.db, db}]
      <4>1. cache' = cache \cup {entry} /\ Answer({FreshIndex.db, db})
        BY <1>14, <3>2 DEF WorkflowRun, Put
      <4>2. entry.revision = revision /\ \A c \in entry.used : c.edit = db.edit
        BY <1>f, <2>1
      <4> HIDE DEF entry
      <4>3. current' = TRUE
        BY <1>f, <2>1, <4>1, Zenon DEF Answer
      <4>4. Recorded'
        <5>1. /\ revision' = revision /\ db' = db /\ view' = view /\ index' = FreshIndex
          BY <1>14 DEF WorkflowRun
        <5>2. ASSUME NEW e \in cache'
              PROVE  /\ e.revision \in Nat /\ e.revision <= revision
                     /\ e.revision = revision => \A c \in e.used : c.edit = db.edit
          <6>1. CASE e = entry
            BY <1>t, <4>2, <6>1
          <6>2. CASE e \in cache
            BY <1>0, <2>1, <6>2 DEF Recorded
          <6>3. QED
            BY <4>1, <5>2, <6>1, <6>2
        <5>3. QED
          BY <1>0, <1>t, <1>f, <2>1, <5>1, <5>2 DEF Recorded
      <4>5. QED
        BY <1>14, <1>0, <2>1, <4>3, <4>4 DEF WorkflowRun
    <3>3. QED
      BY <3>1, <3>2, Zenon
  <2>2. QED
    BY <1>14, <2>1, Zenon DEF CurrentInv, WorkflowRun
<1>15. CASE Close
  <2>1. ASSUME backend = "idalib"
        PROVE  Recorded' /\ informed' = TRUE /\ current' = TRUE
    <3>1. Recorded'
      BY <1>15, <1>0, <1>t, <2>1, RecordsStay DEF Close, ghosts, InvalidateAll
    <3>2. QED
      BY <1>15, <1>0, <2>1, <3>1 DEF Close, ghosts
  <2>2. QED
    BY <1>15, <2>1, Zenon DEF CurrentInv, Close, ghosts
<1>16. CASE UNCHANGED vars
  <2>1. ASSUME backend = "idalib"
        PROVE  Recorded' /\ informed' = TRUE /\ current' = TRUE
    <3>1. Recorded'
      BY <1>16, <1>0, <1>t, <2>1, RecordsStay DEF vars, state, ghosts, InvalidateAll
    <3>2. QED
      BY <1>16, <1>0, <2>1, <3>1 DEF vars, state, ghosts
  <2>2. QED
    BY <1>16, <2>1, Zenon DEF CurrentInv, vars, state, ghosts
<1>17. QED
  BY <1>1, <1>2, <1>3, <1>3a, <1>3b, <1>4, <1>5, <1>6, <1>7, <1>8,
     <1>9, <1>10, <1>11, <1>12, <1>13, <1>14, <1>15, <1>16
  DEF Next, Edit

\* With the real backend the trail's revisions increase and none is ahead of the
\* counter, after any history of edits, partial plans, transforms and rollbacks.
THEOREM AuditStaysOrdered == Spec => []AuditIsOrdered
<1>1. DispatchInv => AuditIsOrdered
  BY DEF DispatchInv
<1>2. QED
  BY DispatchInitInv, DispatchStep, <1>1, PTL DEF Spec

\* An analysis of the real backend, from a refreshed index, a kept one or the cache,
\* reflects every counted edit made before it is answered and none that was rolled
\* back.  What changes the database without a bump is not counted.
THEOREM AnswersStayCurrent == Spec => []AnswersAreCurrent
<1>1. DispatchInv => DispatchTypes
  BY DEF DispatchInv
<1>2. CurrentInv => AnswersAreCurrent
  BY DEF CurrentInv, AnswersAreCurrent
<1>3. QED
  BY DispatchInitInv, DispatchStep, CurrentInitInv, CurrentStep, <1>1, <1>2, PTL DEF Spec

\* An edit that carries expected_revision is made only if no counted edit, rollback
\* or half-applied plan came between it and its agent's last look.
THEOREM GuardedEditsAreInformed == Spec => []GuardedEditIsInformed
<1>1. DispatchInv => DispatchTypes
  BY DEF DispatchInv
<1>2. CurrentInv => GuardedEditIsInformed
  BY DEF CurrentInv, GuardedEditIsInformed
<1>3. QED
  BY DispatchInitInv, DispatchStep, CurrentInitInv, CurrentStep, <1>1, <1>2, PTL DEF Spec

\* Rolling back a transform, complete, half-applied or malformed, gives back the
\* content from before it, as long as no other snapshot was taken since.
THEOREM RollbacksUndoTransforms == Spec => RollbackUndoesTransform
<1>1. DispatchInv /\ [Next]_vars => [SnapshotRestore /\ undo # None => db' = undo]_vars
  BY DEF DispatchInv, UndoAgrees, SnapshotRestore
<1>2. QED
  BY DispatchInitInv, DispatchStep, <1>1, PTL DEF Spec, RollbackUndoesTransform

\* No request shortens or rewrites the trail: not a plan that stops half-way, not a
\* rollback.
THEOREM AuditIsNeverCut == Spec => AuditIsKept
<1>1. DispatchInv /\ [Next]_vars => [IsPrefix(audit, audit')]_vars
  <2> SUFFICES ASSUME DispatchInv, [Next]_vars PROVE IsPrefix(audit, audit')
    OBVIOUS
  <2>0. DispatchTypes /\ Snapped \in Nat /\ 0..MaxPlan \subseteq Nat
    BY DispatchAssumption DEF DispatchInv, DispatchTypes, Snapped
  <2>1. CASE audit' = audit
    BY <2>0, <2>1 DEF DispatchTypes, IsPrefix
  <2>2. ASSUME NEW a \in Agents, NEW guarded \in BOOLEAN, Mutate(a, guarded)
        PROVE  IsPrefix(audit, audit')
    <3>1. audit' = Append(audit, revision + 1)
      BY <2>2 DEF Mutate
    <3>2. audit \in Seq(Nat) /\ 1 \in Nat /\ revision \in Nat
      BY <2>0 DEF DispatchTypes
    <3>3. QED
      BY <3>1, <3>2, AuditGrows, Zenon
  <2>3. ASSUME NEW a \in Agents, NEW guarded \in BOOLEAN, NEW n \in 0..MaxPlan,
               PlanApply(a, guarded, n) \/ DeobApply(a, guarded, n)
        PROVE  IsPrefix(audit, audit')
    BY <2>0, <2>3, AuditGrows, Zenon DEF PlanApply, DeobApply, ApplyOps, DispatchTypes
  <2>4. QED
    BY <2>1, <2>2, <2>3, Zenon DEF Next, Edit, Look, TypesApply, DeobApplyMalformed, SnapshotCreate,
       SnapshotRestore, RestoreNothing, RestoreFails, AnalyzeWait, IndexBuild, IndexQuery,
       WorkflowRun, ResizeHalfFails, RunPlugin, Close, vars, state
<1>2. QED
  BY DispatchInitInv, DispatchStep, <1>1, PTL DEF Spec, AuditIsKept

\* Every variable of the worker keeps its type: what is restored, indexed, cached
\* or remembered is a content the database had, and the trail has at most one
\* entry for each edit.
THEOREM WorkerTypesAreKept == Spec => []TypeOK
<1>1. Init => TypeOK
  BY DispatchAssumption DEF Init, TypeOK, Content, None
<1>2. TypeOK /\ [Next]_vars => TypeOK'
  <2> SUFFICES ASSUME TypeOK, [Next]_vars PROVE TypeOK'
    OBVIOUS
  <2>0. /\ MaxEdits \in Nat /\ MaxRevision \in Nat /\ 0..MaxPlan \subseteq Nat
        /\ revision \in 0..MaxRevision /\ edits \in 0..MaxEdits /\ db \in Content
        /\ snapshots \in Seq(Snapshot)
        /\ audit \in Seq(1..MaxRevision) /\ Len(audit) \in Nat /\ Len(audit) <= edits
    BY DispatchAssumption DEF TypeOK
  <2>e. \A n \in 0..MaxEdits : Edited(n) \in Content /\ Drifted(n) \in Content
    BY <2>0 DEF Edited, Drifted, Content
  <2>b. Built \in Snapshot /\ FreshIndex \in Snapshot
    <3>1. Built \in Snapshot
      BY <2>0 DEF Built, Snapshot
    <3>2. QED
      BY <3>1 DEF FreshIndex, TypeOK
  <2>s. Stacked \in Seq(Snapshot) /\ Snapped \in Nat
    <3>1. [revision |-> revision, db |-> db] \in Snapshot
      BY <2>0 DEF Snapshot
    <3>2. Stacked \in Seq(Snapshot)
      BY <2>0, <3>1 DEF Stacked
    <3>3. QED
      BY <2>0, <3>2 DEF Snapped
  <2>a. ASSUME NEW n \in Nat, NEW r \in Nat, ApplyOps(n, r)
        PROVE  /\ edits' \in 0..MaxEdits /\ db' \in Content /\ revision' \in 0..MaxRevision
               /\ audit' \in Seq(1..MaxRevision) /\ Len(audit') <= edits'
    <3>1. edits + n \in 0..MaxEdits /\ r + n \in 0..MaxRevision
      BY <2>0, <2>a DEF ApplyOps
    <3>2. /\ [i \in 1..n |-> r + i] \in Seq(1..MaxRevision)
          /\ Len([i \in 1..n |-> r + i]) = n
      <4>1. \A i \in 1..n : r + i \in 1..MaxRevision
        BY <2>0, <3>1
      <4>2. QED
        BY <4>1
    <3>3. audit' = audit \o [i \in 1..n |-> r + i]
      BY <2>a DEF ApplyOps
    <3>4. audit' \in Seq(1..MaxRevision) /\ Len(audit') = Len(audit) + n
      BY <2>0, <3>2, <3>3
    <3>5. QED
      BY <2>0, <2>a, <2>e, <3>1, <3>4 DEF ApplyOps
  <2>1. ASSUME NEW a \in Agents, Look(a) PROVE TypeOK'
    BY <2>1 DEF Look, state, TypeOK
  <2>2. ASSUME NEW a \in Agents, NEW guarded \in BOOLEAN, Mutate(a, guarded) PROVE TypeOK'
    <3>1. edits + 1 \in 0..MaxEdits /\ revision + 1 \in 1..MaxRevision
      BY <2>0, <2>2 DEF Mutate
    <3>2. audit' \in Seq(1..MaxRevision) /\ Len(audit') = Len(audit) + 1
      BY <2>0, <2>2, <3>1 DEF Mutate
    <3>3. QED
      BY <2>0, <2>2, <2>e, <3>1, <3>2 DEF Mutate, InvalidateAll, TypeOK
  <2>3. ASSUME NEW a \in Agents, NEW guarded \in BOOLEAN, TypesApply(a, guarded)
        PROVE  TypeOK'
    <3>1. edits + 1 \in 0..MaxEdits /\ revision + 1 \in 0..MaxRevision
      BY <2>0, <2>3 DEF TypesApply
    <3>2. QED
      BY <2>0, <2>3, <2>e, <3>1 DEF TypesApply, InvalidateAll, TypeOK
  <2>4. ASSUME NEW a \in Agents, NEW guarded \in BOOLEAN, NEW n \in 0..MaxPlan,
               PlanApply(a, guarded, n)
        PROVE  TypeOK'
    <3>1. n \in Nat /\ revision \in Nat /\ ApplyOps(n, revision)
      BY <2>0, <2>4 DEF PlanApply
    <3>2. QED
      BY <2>4, <2>a, <3>1 DEF PlanApply, InvalidateAll, TypeOK
  <2>5. ASSUME NEW a \in Agents, NEW guarded \in BOOLEAN, NEW n \in 0..MaxPlan,
               DeobApply(a, guarded, n)
        PROVE  TypeOK'
    <3>1. n \in Nat /\ ApplyOps(n, Snapped)
      BY <2>0, <2>5 DEF DeobApply
    <3>2. QED
      BY <2>0, <2>5, <2>a, <2>s, <3>1 DEF DeobApply, InvalidateAll, TypeOK
  <2>6. ASSUME NEW a \in Agents, NEW guarded \in BOOLEAN, DeobApplyMalformed(a, guarded)
        PROVE  TypeOK'
    BY <2>0, <2>6, <2>s DEF DeobApplyMalformed, TypeOK
  <2>7. CASE SnapshotCreate
    BY <2>0, <2>7, <2>s DEF SnapshotCreate, TypeOK
  <2>8. CASE SnapshotRestore
    <3>1. Last(snapshots) \in Snapshot /\ Front(snapshots) \in Seq(Snapshot)
      BY <2>0, <2>8 DEF SnapshotRestore, Last, Front
    <3>2. Last(snapshots).db \in Content /\ Last(snapshots).revision \in Nat
      BY <2>0, <3>1 DEF Snapshot
    <3>3. Restored \in 0..MaxRevision
      BY <2>0, <2>8, <3>2 DEF SnapshotRestore, Restored
    <3>4. QED
      BY <2>8, <3>1, <3>2, <3>3 DEF SnapshotRestore, InvalidateAll, TypeOK
  <2>9. CASE RestoreNothing
    BY <2>9 DEF RestoreNothing, InvalidateAll, ghosts, TypeOK
  <2>10. CASE RestoreFails \/ Close
    BY <2>10 DEF RestoreFails, Close, ghosts, TypeOK
  <2>11. CASE AnalyzeWait
    <3>1. db' \in Content /\ edits' \in 0..MaxEdits /\ edits' >= edits
      <4>1. CASE db' = db
        BY <2>0, <2>11, <4>1 DEF AnalyzeWait
      <4>2. CASE db' # db
        <5>1. edits < MaxEdits /\ db' = Drifted(edits + 1)
          BY <2>11, <4>2 DEF AnalyzeWait, Analyzed
        <5>2. edits' = edits + 1
          BY <2>11, <4>2 DEF AnalyzeWait
        <5>3. edits + 1 \in 0..MaxEdits
          BY <2>0, <5>1
        <5>4. QED
          BY <2>0, <2>e, <5>1, <5>2, <5>3
      <4>3. QED
        BY <4>1, <4>2
    <3>2. Len(audit) <= edits'
      BY <2>0, <3>1
    <3>3. QED
      BY <2>11, <3>1, <3>2 DEF AnalyzeWait, InvalidateAll, ghosts, TypeOK
  <2>11a. CASE RunPlugin \/ \E a \in Agents, guarded \in BOOLEAN : ResizeHalfFails(a, guarded)
    <3>1. edits < MaxEdits /\ edits' = edits + 1 /\ db' = Drifted(edits + 1)
      BY <2>11a DEF RunPlugin, ResizeHalfFails
    <3>2. edits' \in 0..MaxEdits /\ db' \in Content /\ Len(audit) <= edits'
      BY <2>0, <2>e, <3>1
    <3>3. QED
      BY <2>11a, <3>2 DEF RunPlugin, ResizeHalfFails, ghosts, TypeOK
  <2>12. CASE IndexBuild
    BY <2>12, <2>b DEF IndexBuild, ghosts, TypeOK
  <2>13. CASE IndexQuery
    BY <2>13, <2>b DEF IndexQuery, TypeOK
  <2>14. ASSUME NEW r \in Requests, WorkflowRun(r) PROVE TypeOK'
    <3>1. \A e \in cache' : e.request \in Requests /\ e.used \subseteq Content
      <4>1. {FreshIndex.db, db} \subseteq Content
        BY <2>0, <2>b DEF Snapshot
      <4>2. CASE UNCHANGED cache
        BY <4>2 DEF TypeOK
      <4>3. CASE Put(r, {FreshIndex.db, db})
        BY <4>1, <4>3 DEF Put, TypeOK
      <4>4. QED
        BY <2>14, <4>2, <4>3 DEF WorkflowRun
    <3>2. QED
      BY <2>14, <2>b, <3>1 DEF WorkflowRun, TypeOK
  <2>15. CASE UNCHANGED vars
    BY <2>15 DEF vars, state, ghosts, TypeOK
  <2>16. QED
    BY <2>1, <2>2, <2>3, <2>4, <2>5, <2>6, <2>7, <2>8, <2>9, <2>10, <2>11, <2>11a, <2>12, <2>13,
       <2>14, <2>15 DEF Next, Edit
<1>3. QED
  BY <1>1, <1>2, PTL DEF Spec
=============================================================================
