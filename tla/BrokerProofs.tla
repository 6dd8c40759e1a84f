---------------------------- MODULE BrokerProofs ----------------------------
(***************************************************************************)
(* Two parts of the broker that share no state.  Disposable workers, for   *)
(* every set of tasks and number of permits: no child outlives its permit, *)
(* and the ledger balances on every path.  The registry keeps the outcomes *)
(* of jobs, for every number of jobs, set of sessions, cap and TTL.        *)
(***************************************************************************)
EXTENDS Isolation, Jobs, FiniteSetTheorems, TLAPS

(***************************************************************************)
(* Isolation.                                                              *)
(***************************************************************************)
\* The tasks that hold a permit.
Holders == {t \in Tasks : HoldsPermit(t)}

\* The permits that are not free are held.
PermitsBalance == permits + Cardinality(Holders) = MaxConcurrent

\* A child lives only between the spawn and the kill, and a run is accounted for
\* from the moment its outcome is counted.
GuardAgrees ==
    \A t \in Tasks :
        /\ proc[t] = "alive" => pc[t] \in {"guarded", "hello", "sequence", "killing", "dropping"}
        /\ accounted[t] => pc[t] \in {"killing", "dropping", "returning"}
        /\ pc[t] = "killing" => accounted[t]

\* The inductive invariant.
IsolationInv == TypeOK /\ PermitsBalance /\ GuardAgrees /\ LedgerBalances

\* The cardinality of a set of tasks is a number, and moves by one with a task
\* that enters or leaves it.
LEMMA TaskSets ==
    ASSUME NEW S, S \subseteq Tasks
    PROVE  /\ IsFiniteSet(S)
           /\ Cardinality(S) \in Nat
           /\ \A t \in Tasks : t \notin S => Cardinality(S \cup {t}) = Cardinality(S) + 1
           /\ \A t \in S : Cardinality(S \ {t}) = Cardinality(S) - 1
           /\ \A t \in S : Cardinality(S) > 0
<1>1. IsFiniteSet(S)
  BY IsolationAssumption, FS_Subset
<1>2. Cardinality(S) \in Nat
  BY <1>1, FS_CardinalityType
<1>3. ASSUME NEW t \in Tasks, t \notin S PROVE Cardinality(S \cup {t}) = Cardinality(S) + 1
  BY <1>1, <1>3, FS_AddElement
<1>4. ASSUME NEW t \in S PROVE Cardinality(S \ {t}) = Cardinality(S) - 1
  BY <1>1, <1>4, FS_RemoveElement
<1>5. ASSUME NEW t \in S PROVE Cardinality(S) > 0
  BY <1>1, <1>2, <1>5, FS_EmptySet
<1>6. QED
  BY <1>1, <1>2, <1>3, <1>4, <1>5

\* Before the first run all permits are free and nothing is counted.
LEMMA IsolationInitInv == Init => IsolationInv
<1> SUFFICES ASSUME Init PROVE IsolationInv
  OBVIOUS
<1> USE IsolationAssumption DEF Init
<1>1. TypeOK /\ GuardAgrees
  BY DEF TypeOK, GuardAgrees, LastRequest, Outcomes
<1>2. Holders = {} /\ Unaccounted = {}
  BY DEF Holders, HoldsPermit, Unaccounted
<1>3. PermitsBalance /\ LedgerBalances
  BY <1>2, FS_EmptySet DEF PermitsBalance, LedgerBalances
<1>4. QED
  BY <1>1, <1>3 DEF IsolationInv

\* A step that moves no permit and keeps every task on its side of "idle" keeps
\* the balance of the permits; one that also keeps the unaccounted runs and the
\* counters keeps that of the ledger.
LEMMA BalanceFrames ==
    ASSUME IsolationInv
    PROVE  /\ permits' = permits /\ Holders' = Holders => PermitsBalance'
           /\ Unaccounted' = Unaccounted /\ spawned' = spawned
              /\ killedTimeout' + killedCrash' + exitedClean'
                   = killedTimeout + killedCrash + exitedClean => LedgerBalances'
  BY DEF IsolationInv, PermitsBalance, LedgerBalances

\* Every step of a run and of a child keeps the invariant.
LEMMA IsolationStep == IsolationInv /\ [Next]_vars => IsolationInv'
<1> SUFFICES ASSUME IsolationInv, [Next]_vars PROVE IsolationInv'
  OBVIOUS
<1>0. TypeOK /\ PermitsBalance /\ GuardAgrees /\ LedgerBalances
  BY DEF IsolationInv
<1>h. Holders \subseteq Tasks /\ Unaccounted \subseteq Tasks
  BY DEF Holders, Unaccounted
<1>1. ASSUME NEW t \in Tasks, Acquire(t) PROVE IsolationInv'
  <2>1. Holders' = Holders \cup {t} /\ t \notin Holders /\ permits' = permits - 1
    BY <1>1, <1>0 DEF Acquire, Goto, stats, Holders, HoldsPermit, TypeOK
  <2>2. PermitsBalance'
    BY <2>1, <1>0, <1>h, TaskSets, IsolationAssumption DEF PermitsBalance, TypeOK
  <2>3. Unaccounted' = Unaccounted
    BY <1>1, <1>0 DEF Acquire, Goto, stats, Unaccounted, GuardAgrees, TypeOK
  <2>4. LedgerBalances'
    BY <1>1, <2>3, BalanceFrames DEF Acquire, Goto, stats
  <2>5. TypeOK'
    BY <1>1, <1>0, <2>1, <2>2, <1>h, TaskSets, IsolationAssumption DEF Acquire, Goto, stats, TypeOK, LastRequest, Outcomes, PermitsBalance
  <2>6. GuardAgrees'
    BY <1>1, <1>0 DEF Acquire, Goto, stats, GuardAgrees, TypeOK
  <2>7. QED
    BY <2>2, <2>4, <2>5, <2>6 DEF IsolationInv
<1>2. ASSUME NEW t \in Tasks, Reject(t) PROVE IsolationInv'
  <2>1. permits' = permits /\ Holders' = Holders
    BY <1>2, <1>0 DEF Reject, Holders, HoldsPermit, TypeOK
  <2>2. PermitsBalance'
    BY <2>1, BalanceFrames
  <2>3. Unaccounted' = Unaccounted
    BY <1>2, <1>0 DEF Reject, Unaccounted, GuardAgrees, TypeOK
  <2>4. LedgerBalances'
    BY <1>2, <2>3, BalanceFrames DEF Reject
  <2>5. TypeOK'
    BY <1>2, <1>0, IsolationAssumption DEF Reject, TypeOK, LastRequest, Outcomes
  <2>6. GuardAgrees'
    BY <1>2, <1>0 DEF Reject, GuardAgrees, TypeOK
  <2>7. QED
    BY <2>2, <2>4, <2>5, <2>6 DEF IsolationInv
<1>3. ASSUME NEW t \in Tasks, SpawnFails(t) PROVE IsolationInv'
  <2>1. permits' = permits /\ Holders' = Holders
    BY <1>3, <1>0 DEF SpawnFails, Goto, stats, Holders, HoldsPermit, TypeOK
  <2>2. PermitsBalance'
    BY <2>1, BalanceFrames
  <2>3. Unaccounted' = Unaccounted
    BY <1>3, <1>0 DEF SpawnFails, Goto, stats, Unaccounted, GuardAgrees, TypeOK
  <2>4. LedgerBalances'
    BY <1>3, <2>3, BalanceFrames DEF SpawnFails, Goto, stats
  <2>5. TypeOK'
    BY <1>3, <1>0, IsolationAssumption DEF SpawnFails, Goto, stats, TypeOK, LastRequest, Outcomes
  <2>6. GuardAgrees'
    BY <1>3, <1>0 DEF SpawnFails, Goto, stats, GuardAgrees, TypeOK
  <2>7. QED
    BY <2>2, <2>4, <2>5, <2>6 DEF IsolationInv
<1>4. ASSUME NEW t \in Tasks, Spawn(t) PROVE IsolationInv'
  <2>1. permits' = permits /\ Holders' = Holders
    BY <1>4, <1>0 DEF Spawn, Goto, stats, Holders, HoldsPermit, TypeOK
  <2>2. PermitsBalance'
    BY <2>1, BalanceFrames
  <2>3. Unaccounted' = Unaccounted
    BY <1>4, <1>0 DEF Spawn, Goto, stats, Unaccounted, GuardAgrees, TypeOK
  <2>4. LedgerBalances'
    BY <1>4, <2>3, BalanceFrames DEF Spawn, Goto, stats
  <2>5. TypeOK'
    BY <1>4, <1>0, IsolationAssumption DEF Spawn, Goto, stats, TypeOK, LastRequest, Outcomes
  <2>6. GuardAgrees'
    BY <1>4, <1>0 DEF Spawn, Goto, stats, GuardAgrees, TypeOK
  <2>7. QED
    BY <2>2, <2>4, <2>5, <2>6 DEF IsolationInv
<1>5. ASSUME NEW t \in Tasks, CountSpawned(t) PROVE IsolationInv'
  <2>1. permits' = permits /\ Holders' = Holders
    BY <1>5, <1>0 DEF CountSpawned, Goto, Holders, HoldsPermit, TypeOK
  <2>2. PermitsBalance'
    BY <2>1, BalanceFrames
  <2>3. Unaccounted' = Unaccounted \cup {t} /\ t \notin Unaccounted
    BY <1>5, <1>0 DEF CountSpawned, Goto, Unaccounted, GuardAgrees, TypeOK
  <2>4. LedgerBalances'
    BY <1>5, <2>3, <1>0, <1>h, TaskSets DEF CountSpawned, Goto, LedgerBalances, TypeOK
  <2>5. TypeOK'
    BY <1>5, <1>0, IsolationAssumption DEF CountSpawned, Goto, TypeOK, LastRequest, Outcomes
  <2>6. GuardAgrees'
    BY <1>5, <1>0 DEF CountSpawned, Goto, GuardAgrees, TypeOK
  <2>7. QED
    BY <2>2, <2>4, <2>5, <2>6 DEF IsolationInv
<1>6. ASSUME NEW t \in Tasks, HelloFails(t) PROVE IsolationInv'
  <2>1. permits' = permits /\ Holders' = Holders
    BY <1>6, <1>0 DEF HelloFails, Goto, stats, Holders, HoldsPermit, TypeOK
  <2>2. PermitsBalance'
    BY <2>1, BalanceFrames
  <2>3. Unaccounted' = Unaccounted
    BY <1>6, <1>0 DEF HelloFails, Goto, stats, Unaccounted, GuardAgrees, TypeOK
  <2>4. LedgerBalances'
    BY <1>6, <2>3, BalanceFrames DEF HelloFails, Goto, stats
  <2>5. TypeOK'
    BY <1>6, <1>0, IsolationAssumption DEF HelloFails, Goto, stats, TypeOK, LastRequest, Outcomes
  <2>6. GuardAgrees'
    BY <1>6, <1>0 DEF HelloFails, Goto, stats, GuardAgrees, TypeOK
  <2>7. QED
    BY <2>2, <2>4, <2>5, <2>6 DEF IsolationInv
<1>7. ASSUME NEW t \in Tasks, Hello(t) PROVE IsolationInv'
  <2>1. permits' = permits /\ Holders' = Holders
    BY <1>7, <1>0 DEF Hello, Goto, stats, Holders, HoldsPermit, TypeOK
  <2>2. PermitsBalance'
    BY <2>1, BalanceFrames
  <2>3. Unaccounted' = Unaccounted
    BY <1>7, <1>0 DEF Hello, Goto, stats, Unaccounted, GuardAgrees, TypeOK
  <2>4. LedgerBalances'
    BY <1>7, <2>3, BalanceFrames DEF Hello, Goto, stats
  <2>5. TypeOK'
    BY <1>7, <1>0, IsolationAssumption DEF Hello, Goto, stats, TypeOK, LastRequest, Outcomes
  <2>6. GuardAgrees'
    BY <1>7, <1>0 DEF Hello, Goto, stats, GuardAgrees, TypeOK
  <2>7. QED
    BY <2>2, <2>4, <2>5, <2>6 DEF IsolationInv
<1>8. ASSUME NEW t \in Tasks, TimeOut(t) PROVE IsolationInv'
  <2>1. permits' = permits /\ Holders' = Holders
    BY <1>8, <1>0 DEF TimeOut, Goto, Holders, HoldsPermit, TypeOK
  <2>2. PermitsBalance'
    BY <2>1, BalanceFrames
  <2>3. Unaccounted' = Unaccounted \ {t} /\ t \in Unaccounted
    BY <1>8, <1>0 DEF TimeOut, Goto, Unaccounted, GuardAgrees, TypeOK
  <2>4. LedgerBalances'
    BY <1>8, <2>3, <1>0, <1>h, TaskSets DEF TimeOut, Goto, LedgerBalances, TypeOK
  <2>5. TypeOK'
    BY <1>8, <1>0, IsolationAssumption DEF TimeOut, Goto, TypeOK, LastRequest, Outcomes
  <2>6. GuardAgrees'
    BY <1>8, <1>0 DEF TimeOut, Goto, GuardAgrees, TypeOK
  <2>7. QED
    BY <2>2, <2>4, <2>5, <2>6 DEF IsolationInv
<1>9. ASSUME NEW t \in Tasks, NextRequest(t) PROVE IsolationInv'
  <2>1. permits' = permits /\ Holders' = Holders
    BY <1>9, <1>0 DEF NextRequest, stats, Holders, HoldsPermit, TypeOK
  <2>2. PermitsBalance'
    BY <2>1, BalanceFrames
  <2>3. Unaccounted' = Unaccounted
    BY <1>9, <1>0 DEF NextRequest, stats, Unaccounted, GuardAgrees, TypeOK
  <2>4. LedgerBalances'
    BY <1>9, <2>3, BalanceFrames DEF NextRequest, stats
  <2>5. TypeOK'
    BY <1>9, <1>0, IsolationAssumption DEF NextRequest, stats, TypeOK, LastRequest, Outcomes
  <2>6. GuardAgrees'
    BY <1>9, <1>0 DEF NextRequest, stats, GuardAgrees, TypeOK
  <2>7. QED
    BY <2>2, <2>4, <2>5, <2>6 DEF IsolationInv
<1>10. ASSUME NEW t \in Tasks, FinishOk(t) PROVE IsolationInv'
  <2>1. permits' = permits /\ Holders' = Holders
    BY <1>10, <1>0 DEF FinishOk, Finish, Goto, Holders, HoldsPermit, TypeOK
  <2>2. PermitsBalance'
    BY <2>1, BalanceFrames
  <2>3. Unaccounted' = Unaccounted \ {t} /\ t \in Unaccounted
    BY <1>10, <1>0 DEF FinishOk, Finish, Goto, Unaccounted, GuardAgrees, TypeOK
  <2>4. LedgerBalances'
    BY <1>10, <2>3, <1>0, <1>h, TaskSets DEF FinishOk, Finish, Goto, LedgerBalances, TypeOK
  <2>5. TypeOK'
    BY <1>10, <1>0, IsolationAssumption DEF FinishOk, Finish, Goto, TypeOK, LastRequest, Outcomes
  <2>6. GuardAgrees'
    BY <1>10, <1>0 DEF FinishOk, Finish, Goto, GuardAgrees, TypeOK
  <2>7. QED
    BY <2>2, <2>4, <2>5, <2>6 DEF IsolationInv
<1>11. ASSUME NEW t \in Tasks, FinishBad(t) PROVE IsolationInv'
  <2>1. permits' = permits /\ Holders' = Holders
    BY <1>11, <1>0 DEF FinishBad, Finish, Goto, Holders, HoldsPermit, TypeOK
  <2>2. PermitsBalance'
    BY <2>1, BalanceFrames
  <2>3. Unaccounted' = Unaccounted \ {t} /\ t \in Unaccounted
    BY <1>11, <1>0 DEF FinishBad, Finish, Goto, Unaccounted, GuardAgrees, TypeOK
  <2>4. LedgerBalances'
    BY <1>11, <2>3, <1>0, <1>h, TaskSets DEF FinishBad, Finish, Goto, LedgerBalances, TypeOK
  <2>5. TypeOK'
    BY <1>11, <1>0, IsolationAssumption DEF FinishBad, Finish, Goto, TypeOK, LastRequest, Outcomes
  <2>6. GuardAgrees'
    BY <1>11, <1>0 DEF FinishBad, Finish, Goto, GuardAgrees, TypeOK
  <2>7. QED
    BY <2>2, <2>4, <2>5, <2>6 DEF IsolationInv
<1>12. ASSUME NEW t \in Tasks, KillTree(t) PROVE IsolationInv'
  <2>1. permits' = permits /\ Holders' = Holders
    BY <1>12, <1>0 DEF KillTree, Goto, stats, Holders, HoldsPermit, TypeOK
  <2>2. PermitsBalance'
    BY <2>1, BalanceFrames
  <2>3. Unaccounted' = Unaccounted
    BY <1>12, <1>0 DEF KillTree, Goto, stats, Unaccounted, GuardAgrees, TypeOK
  <2>4. LedgerBalances'
    BY <1>12, <2>3, BalanceFrames DEF KillTree, Goto, stats
  <2>5. TypeOK'
    BY <1>12, <1>0, IsolationAssumption DEF KillTree, Goto, stats, TypeOK, LastRequest, Outcomes
  <2>6. GuardAgrees'
    BY <1>12, <1>0 DEF KillTree, Goto, stats, GuardAgrees, TypeOK
  <2>7. QED
    BY <2>2, <2>4, <2>5, <2>6 DEF IsolationInv
<1>13. ASSUME NEW t \in Tasks, Abandon(t) PROVE IsolationInv'
  <2>1. permits' = permits /\ Holders' = Holders
    BY <1>13, <1>0 DEF Abandon, Goto, stats, Holders, HoldsPermit, TypeOK
  <2>2. PermitsBalance'
    BY <2>1, BalanceFrames
  <2>3. Unaccounted' = Unaccounted
    BY <1>13, <1>0 DEF Abandon, Goto, stats, Unaccounted, GuardAgrees, TypeOK
  <2>4. LedgerBalances'
    BY <1>13, <2>3, BalanceFrames DEF Abandon, Goto, stats
  <2>5. TypeOK'
    BY <1>13, <1>0, IsolationAssumption DEF Abandon, Goto, stats, TypeOK, LastRequest, Outcomes
  <2>6. GuardAgrees'
    BY <1>13, <1>0 DEF Abandon, Goto, stats, GuardAgrees, TypeOK
  <2>7. QED
    BY <2>2, <2>4, <2>5, <2>6 DEF IsolationInv
<1>14. ASSUME NEW t \in Tasks, DropGuard(t) PROVE IsolationInv'
  <2>1. permits' = permits /\ Holders' = Holders
    BY <1>14, <1>0 DEF DropGuard, Goto, Holders, HoldsPermit, TypeOK
  <2>2. PermitsBalance'
    BY <2>1, BalanceFrames
  <2>3. ASSUME accounted[t] PROVE LedgerBalances'
    <3>1. Unaccounted' = Unaccounted
      BY <1>14, <1>0, <2>3 DEF DropGuard, Goto, Unaccounted, TypeOK
    <3>2. QED
      BY <1>14, <2>3, <3>1, BalanceFrames DEF DropGuard, Goto
  <2>u. ASSUME ~accounted[t] PROVE LedgerBalances'
    <3>1. Unaccounted' = Unaccounted \ {t} /\ t \in Unaccounted
      BY <1>14, <1>0, <2>u DEF DropGuard, Goto, Unaccounted, TypeOK
    <3>2. QED
      BY <1>14, <2>u, <3>1, <1>0, <1>h, TaskSets DEF DropGuard, Goto, LedgerBalances, TypeOK
  <2>4. LedgerBalances'
    BY <2>3, <2>u
  <2>5. TypeOK'
    BY <1>14, <1>0, IsolationAssumption DEF DropGuard, Goto, TypeOK, LastRequest, Outcomes
  <2>6. GuardAgrees'
    BY <1>14, <1>0 DEF DropGuard, Goto, GuardAgrees, TypeOK
  <2>7. QED
    BY <2>2, <2>4, <2>5, <2>6 DEF IsolationInv
<1>15. ASSUME NEW t \in Tasks, ReleasePermit(t) PROVE IsolationInv'
  <2>1. Holders' = Holders \ {t} /\ t \in Holders /\ permits' = permits + 1
    BY <1>15, <1>0 DEF ReleasePermit, Goto, stats, Holders, HoldsPermit, TypeOK
  <2>2. PermitsBalance'
    <3>1. Cardinality(Holders \ {t}) = Cardinality(Holders) - 1 /\ Cardinality(Holders) \in Nat
      BY <2>1, <1>h, TaskSets
    <3>2. permits \in Nat /\ permits + Cardinality(Holders) = MaxConcurrent
      BY <1>0, IsolationAssumption DEF PermitsBalance, TypeOK
    <3>3. Cardinality(Holders') = Cardinality(Holders) - 1
      BY <2>1, <3>1
    <3>4. QED
      BY <2>1, <3>1, <3>2, <3>3 DEF PermitsBalance
  <2>3. Unaccounted' = Unaccounted
    BY <1>15, <1>0 DEF ReleasePermit, Goto, stats, Unaccounted, GuardAgrees, TypeOK
  <2>4. LedgerBalances'
    BY <1>15, <2>3, BalanceFrames DEF ReleasePermit, Goto, stats
  <2>5. TypeOK'
    BY <1>15, <1>0, <2>1, <2>2, <1>h, TaskSets, IsolationAssumption DEF ReleasePermit, Goto, stats, TypeOK, LastRequest, Outcomes, PermitsBalance
  <2>6. GuardAgrees'
    BY <1>15, <1>0 DEF ReleasePermit, Goto, stats, GuardAgrees, TypeOK
  <2>7. QED
    BY <2>2, <2>4, <2>5, <2>6 DEF IsolationInv
<1>16. ASSUME NEW t \in Tasks, NEW r \in {"hello", "result", "error"}, ChildAnswers(t, r) PROVE IsolationInv'
  <2>1. permits' = permits /\ Holders' = Holders
    BY <1>16, <1>0 DEF ChildAnswers, stats, Holders, HoldsPermit, TypeOK
  <2>2. PermitsBalance'
    BY <2>1, BalanceFrames
  <2>3. Unaccounted' = Unaccounted
    BY <1>16, <1>0 DEF ChildAnswers, stats, Unaccounted, GuardAgrees, TypeOK
  <2>4. LedgerBalances'
    BY <1>16, <2>3, BalanceFrames DEF ChildAnswers, stats
  <2>5. TypeOK'
    BY <1>16, <1>0, IsolationAssumption DEF ChildAnswers, stats, TypeOK, LastRequest, Outcomes
  <2>6. GuardAgrees'
    BY <1>16, <1>0 DEF ChildAnswers, stats, GuardAgrees, TypeOK
  <2>7. QED
    BY <2>2, <2>4, <2>5, <2>6 DEF IsolationInv
<1>17. ASSUME NEW t \in Tasks, ChildDies(t) PROVE IsolationInv'
  <2>1. permits' = permits /\ Holders' = Holders
    BY <1>17, <1>0 DEF ChildDies, stats, Holders, HoldsPermit, TypeOK
  <2>2. PermitsBalance'
    BY <2>1, BalanceFrames
  <2>3. Unaccounted' = Unaccounted
    BY <1>17, <1>0 DEF ChildDies, stats, Unaccounted, GuardAgrees, TypeOK
  <2>4. LedgerBalances'
    BY <1>17, <2>3, BalanceFrames DEF ChildDies, stats
  <2>5. TypeOK'
    BY <1>17, <1>0, IsolationAssumption DEF ChildDies, stats, TypeOK, LastRequest, Outcomes
  <2>6. GuardAgrees'
    BY <1>17, <1>0 DEF ChildDies, stats, GuardAgrees, TypeOK
  <2>7. QED
    BY <2>2, <2>4, <2>5, <2>6 DEF IsolationInv
<1>18. ASSUME UNCHANGED vars PROVE IsolationInv'
  <2>1. permits' = permits /\ Holders' = Holders
    BY <1>18, <1>0 DEF vars, stats, Holders, HoldsPermit, TypeOK
  <2>2. PermitsBalance'
    BY <2>1, BalanceFrames
  <2>3. Unaccounted' = Unaccounted
    BY <1>18, <1>0 DEF vars, stats, Unaccounted, GuardAgrees, TypeOK
  <2>4. LedgerBalances'
    BY <1>18, <2>3, BalanceFrames DEF vars, stats
  <2>5. TypeOK'
    BY <1>18, <1>0, IsolationAssumption DEF vars, stats, TypeOK, LastRequest, Outcomes
  <2>6. GuardAgrees'
    BY <1>18, <1>0 DEF vars, stats, GuardAgrees, TypeOK
  <2>7. QED
    BY <2>2, <2>4, <2>5, <2>6 DEF IsolationInv
<1>19. QED
  BY <1>1, <1>2, <1>3, <1>4, <1>5, <1>6, <1>7, <1>8, <1>9,
     <1>10, <1>11, <1>12, <1>13, <1>14, <1>15, <1>16, <1>17, <1>18 DEF Next, RunStep

\* No child outlives the permit it runs under, and no more than MAX_CONCURRENT
\* children live at once, whatever returns early, times out or is abandoned.
THEOREM ChildrenAreGuarded == Spec => []NoOrphan
<1>1. IsolationInv => NoOrphan
  <2> SUFFICES ASSUME IsolationInv PROVE NoOrphan
    OBVIOUS
  <2> DEFINE Alive == {t \in Tasks : proc[t] = "alive"}
  <2>1. TypeOK /\ PermitsBalance /\ GuardAgrees
    BY DEF IsolationInv
  <2>2. \A t \in Tasks : proc[t] = "alive" => HoldsPermit(t)
    BY <2>1 DEF GuardAgrees, HoldsPermit
  <2>3. Alive \subseteq Holders /\ Holders \subseteq Tasks
    BY <2>2 DEF Holders
  <2>4. IsFiniteSet(Holders) /\ Cardinality(Holders) \in Nat /\ Cardinality(Alive) \in Nat
    BY <2>3, TaskSets
  <2>5. Cardinality(Alive) <= Cardinality(Holders)
    BY <2>3, <2>4, FS_Subset
  <2>6. Cardinality(Holders) <= MaxConcurrent
    BY <2>1, <2>4, IsolationAssumption DEF PermitsBalance, TypeOK
  <2>7. Cardinality(Alive) <= MaxConcurrent
    BY <2>4, <2>5, <2>6, IsolationAssumption
  <2>8. QED
    BY <2>2, <2>7 DEF NoOrphan
<1>2. QED
  BY IsolationInitInv, IsolationStep, <1>1, PTL DEF Spec

\* "the spawned == terminal ledger stays balanced": a counted child is in exactly
\* one terminal counter once its run is over, on every path out of run_isolated.
THEOREM LedgerIsBalanced == Spec => []LedgerBalances
<1>1. IsolationInv => LedgerBalances
  BY DEF IsolationInv
<1>2. QED
  BY IsolationInitInv, IsolationStep, <1>1, PTL DEF Spec

\* Every variable of the isolated runs keeps its type: in particular a permit is
\* neither taken from an empty semaphore nor given back twice.
THEOREM RunTypesAreKept == Spec => []TypeOK
<1>1. IsolationInv => TypeOK
  BY DEF IsolationInv
<1>2. QED
  BY IsolationInitInv, IsolationStep, <1>1, PTL DEF Spec

(***************************************************************************)
(* Jobs.                                                                   *)
(***************************************************************************)
\* Ids not yet drawn have left no trace.
Untouched == \A i \in Ids : i >= nextJob => task[i] = "none"

\* What a task stores it has got from its call.
OutcomeIsKnown == \A i \in Ids : task[i] \in {"storing", "ended"} => returned[i] # "none"

\* An entry that finished before its task ended was cancelled; what has been
\* collected or removed was cancelled, or had its TTL after its task ended.
EndedFirst ==
    \A i \in Ids :
        /\ task[i] = "none" => state[i] = "absent" /\ i \notin expired
        /\ state[i] = "Running" => task[i] # "ended"
        /\ state[i] \in Finished => task[i] = "ended" \/ i \in cancelled
        /\ i \in expired \/ (state[i] = "absent" /\ task[i] # "none") =>
             i \in cancelled \/ (task[i] = "ended" /\ age[i] >= TTL)

\* The inductive invariant.
JobsInv == JobsTypeOK /\ Untouched /\ OutcomeIsKnown /\ EndedFirst /\ OutcomeIsKept

\* The registry starts empty.
LEMMA JobsInitInv == JobsInit => JobsInv
<1> SUFFICES ASSUME JobsInit PROVE JobsInv
  OBVIOUS
<1> USE JobsAssumption DEF JobsInit
<1>1. JobsTypeOK
  BY DEF JobsTypeOK, Ids, NoJob, JobState
<1>2. Untouched /\ OutcomeIsKnown /\ EndedFirst /\ OutcomeIsKept
  BY DEF Untouched, OutcomeIsKnown, EndedFirst, OutcomeIsKept, Finished
<1>3. QED
  BY <1>1, <1>2 DEF JobsInv

\* Every critical section of the registry, every step of a task or a tool
\* call and every tick keeps the invariant.
LEMMA JobsStep == JobsInv /\ [JobsNext]_jobsVars => JobsInv'
<1> SUFFICES ASSUME JobsInv, [JobsNext]_jobsVars PROVE JobsInv'
  OBVIOUS
<1> USE JobsAssumption DEF JobsInv
<1>1. ASSUME NEW s \in Sessions, Start(s) PROVE JobsInv'
  <2>1. JobsTypeOK'
    BY <1>1 DEF Start, JobsTypeOK, Ids, NoJob, JobState, Finished, OutcomeIsKnown
  <2>2. Untouched' /\ OutcomeIsKnown'
    BY <1>1 DEF Start, JobsTypeOK, Untouched, OutcomeIsKnown, Ids
  <2>3. EndedFirst'
    BY <1>1 DEF Start, JobsTypeOK, EndedFirst, Untouched, OutcomeIsKnown, JobState, Finished, Ids
  <2>4. OutcomeIsKept'
    BY <1>1 DEF Start, JobsTypeOK, OutcomeIsKept, EndedFirst, Untouched, OutcomeIsKnown, Ids, Finished
  <2>5. QED
    BY <2>1, <2>2, <2>3, <2>4
<1>2. ASSUME NEW i \in Ids, TaskCalls(i) PROVE JobsInv'
  <2>1. JobsTypeOK'
    BY <1>2 DEF TaskCalls, JobsTypeOK, Ids, NoJob, JobState, Finished, OutcomeIsKnown
  <2>2. Untouched' /\ OutcomeIsKnown'
    BY <1>2 DEF TaskCalls, JobsTypeOK, Untouched, OutcomeIsKnown, Ids
  <2>3. EndedFirst'
    BY <1>2 DEF TaskCalls, JobsTypeOK, EndedFirst, Untouched, OutcomeIsKnown, JobState, Finished, Ids
  <2>4. OutcomeIsKept'
    BY <1>2 DEF TaskCalls, JobsTypeOK, OutcomeIsKept, EndedFirst, Untouched, OutcomeIsKnown, Ids, Finished
  <2>5. QED
    BY <2>1, <2>2, <2>3, <2>4
<1>3. ASSUME NEW i \in Ids, NEW o \in {"Done", "Failed"}, TaskReturns(i, o) PROVE JobsInv'
  <2>1. JobsTypeOK'
    BY <1>3 DEF TaskReturns, JobsTypeOK, Ids, NoJob, JobState, Finished, OutcomeIsKnown
  <2>2. Untouched' /\ OutcomeIsKnown'
    BY <1>3 DEF TaskReturns, JobsTypeOK, Untouched, OutcomeIsKnown, Ids
  <2>3. EndedFirst'
    BY <1>3 DEF TaskReturns, JobsTypeOK, EndedFirst, Untouched, OutcomeIsKnown, JobState, Finished, Ids
  <2>4. OutcomeIsKept'
    BY <1>3 DEF TaskReturns, JobsTypeOK, OutcomeIsKept, EndedFirst, Untouched, OutcomeIsKnown, Ids, Finished
  <2>5. QED
    BY <2>1, <2>2, <2>3, <2>4
<1>4. ASSUME NEW i \in Ids, TaskStores(i) PROVE JobsInv'
  <2>1. JobsTypeOK'
    <3>1. /\ UNCHANGED <<nextJob, session, returned, holder, expired, cancelled>>
          /\ task' = [task EXCEPT ![i] = "ended"]
      BY <1>4 DEF TaskStores
    <3>2. CASE state[i] = "absent"
      <4>1. UNCHANGED <<state, age>>
        BY <1>4, <3>2 DEF TaskStores
      <4>2. QED
        BY <3>1, <4>1 DEF JobsTypeOK
    <3>3. CASE state[i] # "absent"
      <4>1. state' = [state EXCEPT ![i] = returned[i]] /\ age' = [age EXCEPT ![i] = 0]
        BY <1>4, <3>3 DEF TaskStores
      <4>2. returned[i] \in JobState
        BY <1>4 DEF TaskStores, JobsTypeOK, OutcomeIsKnown, JobState
      <4>3. state' \in [Ids -> JobState \cup {"absent"}] /\ age' \in [Ids -> 0..TTL]
        BY <4>1, <4>2 DEF JobsTypeOK
      <4>4. QED
        BY <3>1, <4>3 DEF JobsTypeOK
    <3>4. QED
      BY <3>2, <3>3
  <2>2. Untouched' /\ OutcomeIsKnown'
    BY <1>4 DEF TaskStores, JobsTypeOK, Untouched, OutcomeIsKnown, Ids
  <2>3. EndedFirst'
    BY <1>4, SMTT(60) DEF TaskStores, JobsTypeOK, EndedFirst, Untouched, OutcomeIsKnown, JobState, Finished, Ids
  <2>4. OutcomeIsKept'
    BY <1>4 DEF TaskStores, JobsTypeOK, OutcomeIsKept, EndedFirst, Untouched, OutcomeIsKnown, Ids, Finished
  <2>5. QED
    BY <2>1, <2>2, <2>3, <2>4
<1>5. ASSUME NEW i \in Ids, Cancel(i) PROVE JobsInv'
  <2>1. JobsTypeOK'
    BY <1>5 DEF Cancel, JobsTypeOK, Ids, NoJob, JobState, Finished, OutcomeIsKnown
  <2>2. Untouched' /\ OutcomeIsKnown'
    BY <1>5 DEF Cancel, JobsTypeOK, Untouched, OutcomeIsKnown, Ids
  <2>3. EndedFirst'
    BY <1>5 DEF Cancel, JobsTypeOK, EndedFirst, Untouched, OutcomeIsKnown, JobState, Finished, Ids
  <2>4. OutcomeIsKept'
    BY <1>5 DEF Cancel, JobsTypeOK, OutcomeIsKept, EndedFirst, Untouched, OutcomeIsKnown, Ids, Finished
  <2>5. QED
    BY <2>1, <2>2, <2>3, <2>4
<1>6. ASSUME SweepCollects PROVE JobsInv'
  <2>1. JobsTypeOK'
    BY <1>6 DEF SweepCollects, JobsTypeOK, Ids, NoJob, JobState, Finished, OutcomeIsKnown
  <2>2. Untouched' /\ OutcomeIsKnown'
    BY <1>6 DEF SweepCollects, JobsTypeOK, Untouched, OutcomeIsKnown, Ids
  <2>3. EndedFirst'
    BY <1>6 DEF SweepCollects, JobsTypeOK, EndedFirst, Untouched, OutcomeIsKnown, JobState, Finished, Ids
  <2>4. OutcomeIsKept'
    BY <1>6 DEF SweepCollects, JobsTypeOK, OutcomeIsKept, EndedFirst, Untouched, OutcomeIsKnown, Ids, Finished
  <2>5. QED
    BY <2>1, <2>2, <2>3, <2>4
<1>7. ASSUME SweepRemoves PROVE JobsInv'
  <2>1. JobsTypeOK'
    BY <1>7 DEF SweepRemoves, JobsTypeOK, Ids, NoJob, JobState, Finished, OutcomeIsKnown
  <2>2. Untouched' /\ OutcomeIsKnown'
    BY <1>7 DEF SweepRemoves, JobsTypeOK, Untouched, OutcomeIsKnown, Ids
  <2>3. EndedFirst'
    BY <1>7 DEF SweepRemoves, JobsTypeOK, EndedFirst, Untouched, OutcomeIsKnown, JobState, Finished, Ids
  <2>4. OutcomeIsKept'
    BY <1>7 DEF SweepRemoves, JobsTypeOK, OutcomeIsKept, EndedFirst, Untouched, OutcomeIsKnown, Ids, Finished
  <2>5. QED
    BY <2>1, <2>2, <2>3, <2>4
<1>8. ASSUME Tick PROVE JobsInv'
  <2>1. JobsTypeOK'
    BY <1>8, SMTT(60) DEF Tick, JobsTypeOK, Ids, NoJob, JobState, Finished, OutcomeIsKnown
  <2>2. Untouched' /\ OutcomeIsKnown'
    BY <1>8 DEF Tick, JobsTypeOK, Untouched, OutcomeIsKnown, Ids
  <2>3. EndedFirst'
    BY <1>8 DEF Tick, JobsTypeOK, EndedFirst, Untouched, OutcomeIsKnown, JobState, Finished, Ids
  <2>4. OutcomeIsKept'
    BY <1>8 DEF Tick, JobsTypeOK, OutcomeIsKept, EndedFirst, Untouched, OutcomeIsKnown, Ids, Finished
  <2>5. QED
    BY <2>1, <2>2, <2>3, <2>4
<1>8a. ASSUME NEW s \in Sessions, ToolLocks(s) PROVE JobsInv'
  <2>1. JobsTypeOK'
    BY <1>8a DEF ToolLocks, JobsTypeOK, NoJob, ToolCall
  <2>2. Untouched' /\ OutcomeIsKnown'
    BY <1>8a DEF ToolLocks, Untouched, OutcomeIsKnown
  <2>3. EndedFirst'
    BY <1>8a DEF ToolLocks, EndedFirst
  <2>4. OutcomeIsKept'
    BY <1>8a DEF ToolLocks, OutcomeIsKept
  <2>5. QED
    BY <2>1, <2>2, <2>3, <2>4
<1>8b. ASSUME NEW s \in Sessions, ToolReturns(s) PROVE JobsInv'
  <2>1. JobsTypeOK'
    BY <1>8b DEF ToolReturns, JobsTypeOK, NoJob, ToolCall
  <2>2. Untouched' /\ OutcomeIsKnown'
    BY <1>8b DEF ToolReturns, Untouched, OutcomeIsKnown
  <2>3. EndedFirst'
    BY <1>8b DEF ToolReturns, EndedFirst
  <2>4. OutcomeIsKept'
    BY <1>8b DEF ToolReturns, OutcomeIsKept
  <2>5. QED
    BY <2>1, <2>2, <2>3, <2>4
<1>9. ASSUME UNCHANGED jobsVars PROVE JobsInv'
  <2>1. JobsTypeOK'
    BY <1>9 DEF jobsVars, JobsTypeOK, Ids, NoJob, JobState, Finished, OutcomeIsKnown
  <2>2. Untouched' /\ OutcomeIsKnown'
    BY <1>9 DEF jobsVars, JobsTypeOK, Untouched, OutcomeIsKnown, Ids
  <2>3. EndedFirst'
    BY <1>9 DEF jobsVars, JobsTypeOK, EndedFirst, Untouched, OutcomeIsKnown, JobState, Finished, Ids
  <2>4. OutcomeIsKept'
    BY <1>9 DEF jobsVars, JobsTypeOK, OutcomeIsKept, EndedFirst, Untouched, OutcomeIsKnown, Ids, Finished
  <2>5. QED
    BY <2>1, <2>2, <2>3, <2>4
<1>10. QED
  BY <1>1, <1>2, <1>3, <1>4, <1>5, <1>6, <1>7, <1>8, <1>8a, <1>8b, <1>9
  DEF JobsNext, TaskStep

\* "Data is never lost": the outcome of a job nobody cancelled stays in the
\* registry for its TTL, whatever the sweep, cancels and other jobs do between
\* the moment the task stores it and then.
THEOREM OutcomesAreKept == JobsSpec => []OutcomeIsKept
<1>1. JobsInv => OutcomeIsKept
  BY DEF JobsInv
<1>2. QED
  BY JobsInitInv, JobsStep, <1>1, PTL DEF JobsSpec

\* Every variable of the registry keeps its type: no age passes the TTL, and no id
\* is issued that the bound on jobs does not cover.
THEOREM JobTypesAreKept == JobsSpec => []JobsTypeOK
<1>1. JobsInv => JobsTypeOK
  BY DEF JobsInv
<1>2. QED
  BY JobsInitInv, JobsStep, <1>1, PTL DEF JobsSpec
=============================================================================
