----------------------- MODULE WorkerPoolOrderProofs -----------------------
(***************************************************************************)
(* More of the pool, for every number of tool calls, sessions, workers and *)
(* restarts: its types, the course of a session's health, the order in     *)
(* which the mutexes are taken, and the table of handles as if opens,      *)
(* recoveries and closes were atomic.                                      *)
(***************************************************************************)
EXTENDS WorkerPoolProofs

\* Who holds a mutex is at a place of the code where the guard is alive.
Owned ==
    \A a \in Agents :
        /\ poolLock = a =>
             pc[a] \in {"spawn", "open", "list", "info", "health", "survey", "recover",
                        "respawn", "reopen"}
        /\ dbsLock = a => pc[a] = "survey"
        /\ \A s \in Sessions : sessLock[s] = a =>
             \/ pc[a] \in {"open", "reopen"} /\ fresh[a] = s
             \/ pc[a] \in {"use", "regions", "isolated", "save", "close", "shutdown"} /\ sess[a] = s

\* A tool call has the session it works on, and no call has found the session
\* that a recovery is still opening.
Found ==
    \A a \in Agents :
        /\ pc[a] \in {"open", "list", "info", "reopen"} => fresh[a] \in Sessions
        /\ pc[a] \in {"lock", "use", "regions", "isolated", "closelock", "save", "close",
                      "shutdown", "recover", "respawn", "reopen"} => sess[a] \in Sessions
        /\ sess[a] < nextSess
        /\ \A b \in Agents : pc[b] = "reopen" => sess[a] # fresh[b]

\* A session leaves Healthy only by its monitor, which is gone then; a recovery
\* in progress has marked it; and it is given up by the failure that exceeds the
\* policy.
Courses ==
    /\ \A s \in Sessions :
          /\ health[s] # "Healthy" => pump[s] = "done"
          /\ failures[s] <= MaxRestarts \/ health[s] = "Dead"
    /\ \A a \in Agents : pc[a] \in {"respawn", "reopen"} => health[sess[a]] = "Recovering"

\* No more handles than sessions are drawn.
Numbered ==
    /\ nextHandle <= nextSess
    /\ \A a \in Agents : pc[a] \in {"open", "reopen"} => nextHandle < nextSess

\* The inductive invariant.
OrderInv == PoolInv /\ TypeOK /\ Owned /\ Found /\ Courses /\ Numbered

\* A session's health moves along recovery.rs, or stays.
HealthStep ==
    \A s \in Sessions :
        health'[s] = health[s] \/
        <<health[s], health'[s]>> \in {<<"Healthy", "Crashed">>,
                                       <<"Crashed", "Recovering">>,
                                       <<"Recovering", "Dead">>}

\* What a step has to establish beside PoolInv'.
OrderGoal == TypeOK' /\ Owned' /\ Found' /\ Courses' /\ Numbered' /\ HealthStep

\* Every step of a tool call, a worker or a monitor keeps the invariant and moves
\* each session's health along its course.
LEMMA OrderStep == OrderInv /\ [Next]_vars => OrderGoal
<1> SUFFICES ASSUME OrderInv, [Next]_vars PROVE OrderGoal
  OBVIOUS
<1>0. PoolTypes /\ Holding /\ DrawnOnce /\ TypeOK /\ Owned /\ Found /\ Courses /\ Numbered
  BY DEF OrderInv, PoolInv
<1>n. Nobody \notin Agents /\ MaxSessions \in Nat /\ MaxRestarts \in Nat
  BY PoolAssumption
<1>1. ASSUME NEW a \in Agents, OpenStart(a) PROVE OrderGoal
  <2>1. TypeOK'
    BY <1>1, <1>0 DEF OpenStart, LockPool, Goto, tables, sessions, TypeOK
  <2>2. Owned'
    BY <1>1, <1>0, <1>n DEF OpenStart, LockPool, Goto, tables, sessions, TypeOK, Owned
  <2>3. Found'
    BY <1>1, <1>0, <1>n DEF OpenStart, LockPool, Goto, tables, sessions, TypeOK, Found,
       None, Sessions
  <2>4. Courses'
    BY <1>1, <1>0, <1>n DEF OpenStart, LockPool, Goto, tables, sessions, TypeOK, Courses,
       Found, Holding
  <2>5. Numbered'
    BY <1>1, <1>0, <1>n DEF OpenStart, LockPool, Goto, tables, sessions, TypeOK, Numbered,
       Holding
  <2>6. HealthStep
    BY <1>1 DEF OpenStart, sessions, HealthStep
  <2>7. QED
    BY <2>1, <2>2, <2>3, <2>4, <2>5, <2>6 DEF OrderGoal
<1>2. ASSUME NEW a \in Agents, OpenRefused(a) PROVE OrderGoal
  <2>1. TypeOK'
    BY <1>2, <1>0 DEF OpenRefused, Done, Goto, tables, sessions, TypeOK
  <2>2. Owned'
    BY <1>2, <1>0, <1>n DEF OpenRefused, Done, Goto, tables, sessions, TypeOK, Owned
  <2>3. Found'
    BY <1>2, <1>0, <1>n DEF OpenRefused, Done, Goto, tables, sessions, TypeOK, Found, None,
       Sessions
  <2>4. Courses'
    BY <1>2, <1>0, <1>n DEF OpenRefused, Done, Goto, tables, sessions, TypeOK, Courses,
       Found, Holding
  <2>5. Numbered'
    BY <1>2, <1>0, <1>n DEF OpenRefused, Done, Goto, tables, sessions, TypeOK, Numbered,
       Holding
  <2>6. HealthStep
    BY <1>2 DEF OpenRefused, sessions, HealthStep
  <2>7. QED
    BY <2>1, <2>2, <2>3, <2>4, <2>5, <2>6 DEF OrderGoal
<1>3. ASSUME NEW a \in Agents, OpenFails(a) PROVE OrderGoal
  <2>1. TypeOK'
    BY <1>3, <1>0, <1>n DEF OpenFails, CallFails, UnlockSession, Done, Goto, tables,
       TypeOK, Sessions, Handles, None, Health
  <2>2. Owned'
    BY <1>3, <1>0, <1>n DEF OpenFails, UnlockSession, Done, Goto, tables, TypeOK, Owned
  <2>3. Found'
    BY <1>3, <1>0, <1>n DEF OpenFails, Done, Goto, tables, TypeOK, Found, None, Sessions
  <2>4. Courses'
    BY <1>3, <1>0, <1>n DEF OpenFails, CallFails, Done, Goto, tables, TypeOK, Courses,
       Found, Holding
  <2>5. Numbered'
    BY <1>3, <1>0, <1>n DEF OpenFails, Done, Goto, tables, TypeOK, Numbered, Holding
  <2>6. HealthStep
    BY <1>3 DEF OpenFails, HealthStep
  <2>7. QED
    BY <2>1, <2>2, <2>3, <2>4, <2>5, <2>6 DEF OrderGoal
<1>4. ASSUME NEW a \in Agents, OpenInfo(a) PROVE OrderGoal
  <2>1. TypeOK'
    BY <1>4, <1>0 DEF OpenInfo, CallOk, CallFails, Done, Goto, tables, TypeOK
  <2>2. Owned'
    BY <1>4, <1>0, <1>n DEF OpenInfo, Done, Goto, tables, TypeOK, Owned
  <2>3. Found'
    BY <1>4, <1>0, <1>n DEF OpenInfo, Done, Goto, tables, TypeOK, Found, None, Sessions
  <2>4. Courses'
    BY <1>4, <1>0, <1>n DEF OpenInfo, CallOk, CallFails, Done, Goto, tables, TypeOK,
       Courses, Found, Holding
  <2>5. Numbered'
    BY <1>4, <1>0, <1>n DEF OpenInfo, Done, Goto, tables, TypeOK, Numbered, Holding
  <2>6. HealthStep
    BY <1>4 DEF OpenInfo, HealthStep
  <2>7. QED
    BY <2>1, <2>2, <2>3, <2>4, <2>5, <2>6 DEF OrderGoal
<1>5. ASSUME NEW a \in Agents, UseLock(a) PROVE OrderGoal
  <2>1. TypeOK'
    BY <1>5, <1>0 DEF UseLock, LockSession, Goto, tables, sessions, TypeOK
  <2>2. Owned'
    BY <1>5, <1>0, <1>n DEF UseLock, LockSession, Goto, tables, sessions, TypeOK, Owned
  <2>3. Found'
    BY <1>5, <1>0, <1>n DEF UseLock, Goto, tables, sessions, TypeOK, Found, None, Sessions
  <2>4. Courses'
    BY <1>5, <1>0, <1>n DEF UseLock, Goto, tables, sessions, TypeOK, Courses, Found, Holding
  <2>5. Numbered'
    BY <1>5, <1>0, <1>n DEF UseLock, Goto, tables, sessions, TypeOK, Numbered, Holding
  <2>6. HealthStep
    BY <1>5 DEF UseLock, sessions, HealthStep
  <2>7. QED
    BY <2>1, <2>2, <2>3, <2>4, <2>5, <2>6 DEF OrderGoal
<1>6. ASSUME NEW a \in Agents, UseCall(a) PROVE OrderGoal
  <2>1. TypeOK'
    BY <1>6, <1>0, <1>n DEF UseCall, CallOk, CallFails, UnlockSession, Done, Goto, tables,
       TypeOK, Sessions, Handles, None, Health
  <2>2. Owned'
    BY <1>6, <1>0, <1>n DEF UseCall, UnlockSession, Done, Goto, tables, TypeOK, Owned
  <2>3. Found'
    BY <1>6, <1>0, <1>n DEF UseCall, Done, Goto, tables, TypeOK, Found, None, Sessions
  <2>4. Courses'
    BY <1>6, <1>0, <1>n DEF UseCall, CallOk, CallFails, Done, Goto, tables, TypeOK,
       Courses, Found, Holding
  <2>5. Numbered'
    BY <1>6, <1>0, <1>n DEF UseCall, Done, Goto, tables, TypeOK, Numbered, Holding
  <2>6. HealthStep
    BY <1>6 DEF UseCall, HealthStep
  <2>7. QED
    BY <2>1, <2>2, <2>3, <2>4, <2>5, <2>6 DEF OrderGoal
<1>6a. ASSUME NEW a \in Agents, LargeCalls(a) PROVE OrderGoal
  <2>1. TypeOK'
    BY <1>6a, <1>0, <1>n DEF LargeCalls, CallOk, Goto, locks, tables, TypeOK, Sessions,
       Handles, None, Health
  <2>2. Owned'
    BY <1>6a, <1>0, <1>n DEF LargeCalls, Goto, locks, tables, TypeOK, Owned
  <2>3. Found'
    BY <1>6a, <1>0, <1>n DEF LargeCalls, Goto, locks, tables, TypeOK, Found, None, Sessions
  <2>4. Courses'
    BY <1>6a, <1>0, <1>n DEF LargeCalls, CallOk, Goto, locks, tables, TypeOK, Courses,
       Found, Holding
  <2>5. Numbered'
    BY <1>6a, <1>0, <1>n DEF LargeCalls, Goto, locks, tables, TypeOK, Numbered, Holding
  <2>6. HealthStep
    BY <1>6a DEF LargeCalls, sessions, HealthStep
  <2>7. QED
    BY <2>1, <2>2, <2>3, <2>4, <2>5, <2>6 DEF OrderGoal
<1>6b. ASSUME NEW a \in Agents, LargeReadsPool(a) PROVE OrderGoal
  <2>a. /\ pc[a] = "regions"
        /\ \/ UnlockSession(sess[a]) /\ Done(a)
           \/ Goto(a, "isolated") /\ UNCHANGED <<sessLock, hdl, sess, fresh, todo>>
    BY <1>6b DEF LargeReadsPool
  <2>b. UNCHANGED <<poolLock, dbsLock, tables, sessions>>
    BY <1>6b DEF LargeReadsPool
  <2>1. TypeOK'
    <3>1. CASE UnlockSession(sess[a]) /\ Done(a)
      <4>1. /\ hdl' \in [Agents -> Handles \cup {None}] /\ sess' \in [Agents -> Sessions \cup {None}]
            /\ fresh' \in [Agents -> Sessions \cup {None}] /\ todo' \in [Agents -> SUBSET Sessions]
        BY <1>0, <3>1 DEF Done, TypeOK
      <4>2. sessLock' \in [Sessions -> Agents \cup {Nobody}]
        <5>1. sessLock \in [Sessions -> Agents \cup {Nobody}] /\ sess[a] \in Sessions
          BY <1>0, <2>a DEF TypeOK, Found
        <5>2. QED
          BY <3>1, <5>1 DEF UnlockSession
      <4>3. pc' \in [Agents -> Labels]
        <5>1. pc \in [Agents -> Labels] /\ "idle" \in Labels
          BY <1>0 DEF TypeOK, Labels
        <5>2. QED
          BY <3>1, <5>1 DEF Done, Goto
      <4>4. QED
        BY <1>0, <2>b, <4>1, <4>2, <4>3, Zenon DEF tables, sessions, TypeOK, Labels
    <3>2. CASE Goto(a, "isolated") /\ UNCHANGED <<sessLock, hdl, sess, fresh, todo>>
      BY <1>0, <1>n, <2>a, <2>b, <3>2 DEF Goto, tables, sessions, TypeOK, Sessions, Handles,
         None, Health
    <3>3. QED
      BY <2>a, <3>1, <3>2, Zenon
  <2>2. Owned'
    BY <1>6b, <1>0, <1>n DEF LargeReadsPool, UnlockSession, Done, Goto, tables, sessions, TypeOK, Owned
  <2>3. Found'
    <3>1. CASE UnlockSession(sess[a]) /\ Done(a)
      BY <1>0, <1>n, <2>b, <3>1 DEF Done, Goto, tables, sessions, TypeOK, Found, None, Sessions
    <3>2. CASE Goto(a, "isolated") /\ UNCHANGED <<sessLock, hdl, sess, fresh, todo>>
      BY <1>0, <1>n, <2>a, <2>b, <3>2 DEF Goto, tables, sessions, TypeOK, Found, None, Sessions
    <3>3. QED
      BY <2>a, <3>1, <3>2, Zenon
  <2>4. Courses'
    BY <1>6b, <1>0, <1>n DEF LargeReadsPool, Done, Goto, tables, sessions, TypeOK, Courses,
       Found, Holding
  <2>5. Numbered'
    BY <1>6b, <1>0, <1>n DEF LargeReadsPool, Done, Goto, tables, sessions, TypeOK, Numbered, Holding
  <2>6. HealthStep
    BY <1>6b DEF LargeReadsPool, sessions, HealthStep
  <2>7. QED
    BY <2>1, <2>2, <2>3, <2>4, <2>5, <2>6 DEF OrderGoal
<1>6c. ASSUME NEW a \in Agents, LargeEnds(a) PROVE OrderGoal
  <2>1. TypeOK'
    <3>1. UnlockSession(sess[a]) /\ Done(a) /\ UNCHANGED <<poolLock, dbsLock, tables, sessions>>
      BY <1>6c DEF LargeEnds
    <3>2. /\ hdl' \in [Agents -> Handles \cup {None}] /\ sess' \in [Agents -> Sessions \cup {None}]
          /\ fresh' \in [Agents -> Sessions \cup {None}] /\ todo' \in [Agents -> SUBSET Sessions]
      BY <1>0, <3>1 DEF Done, TypeOK
    <3>3. sessLock' \in [Sessions -> Agents \cup {Nobody}]
      <4>1. sessLock \in [Sessions -> Agents \cup {Nobody}] /\ sess[a] \in Sessions
        BY <1>6c, <1>0 DEF LargeEnds, TypeOK, Found
      <4>2. QED
        BY <3>1, <4>1 DEF UnlockSession
    <3>4. pc' \in [Agents -> Labels]
      <4>1. pc \in [Agents -> Labels] /\ "idle" \in Labels
        BY <1>0 DEF TypeOK, Labels
      <4>2. QED
        BY <3>1, <4>1 DEF Done, Goto
    <3>5. QED
      BY <1>0, <3>1, <3>2, <3>3, <3>4, Zenon DEF tables, sessions, TypeOK, Labels
  <2>2. Owned'
    BY <1>6c, <1>0, <1>n DEF LargeEnds, UnlockSession, Done, Goto, tables, sessions, TypeOK, Owned
  <2>3. Found'
    BY <1>6c, <1>0, <1>n DEF LargeEnds, Done, Goto, tables, sessions, TypeOK, Found, None, Sessions
  <2>4. Courses'
    BY <1>6c, <1>0, <1>n DEF LargeEnds, Done, Goto, tables, sessions, TypeOK, Courses,
       Found, Holding
  <2>5. Numbered'
    BY <1>6c, <1>0, <1>n DEF LargeEnds, Done, Goto, tables, sessions, TypeOK, Numbered, Holding
  <2>6. HealthStep
    BY <1>6c DEF LargeEnds, sessions, HealthStep
  <2>7. QED
    BY <2>1, <2>2, <2>3, <2>4, <2>5, <2>6 DEF OrderGoal
<1>7. ASSUME NEW a \in Agents, CloseLock(a) PROVE OrderGoal
  <2>1. TypeOK'
    BY <1>7, <1>0 DEF CloseLock, LockSession, Goto, tables, sessions, TypeOK
  <2>2. Owned'
    BY <1>7, <1>0, <1>n DEF CloseLock, LockSession, Goto, tables, sessions, TypeOK, Owned
  <2>3. Found'
    BY <1>7, <1>0, <1>n DEF CloseLock, Goto, tables, sessions, TypeOK, Found, None, Sessions
  <2>4. Courses'
    BY <1>7, <1>0, <1>n DEF CloseLock, Goto, tables, sessions, TypeOK, Courses, Found,
       Holding
  <2>5. Numbered'
    BY <1>7, <1>0, <1>n DEF CloseLock, Goto, tables, sessions, TypeOK, Numbered, Holding
  <2>6. HealthStep
    BY <1>7 DEF CloseLock, sessions, HealthStep
  <2>7. QED
    BY <2>1, <2>2, <2>3, <2>4, <2>5, <2>6 DEF OrderGoal
<1>8. ASSUME NEW a \in Agents, CloseCall(a) PROVE OrderGoal
  <2>1. TypeOK'
    BY <1>8, <1>0 DEF CloseCall, CallOk, Goto, locks, tables, TypeOK
  <2>2. Owned'
    BY <1>8, <1>0, <1>n DEF CloseCall, Goto, locks, tables, TypeOK, Owned
  <2>3. Found'
    BY <1>8, <1>0, <1>n DEF CloseCall, Goto, locks, tables, TypeOK, Found, None, Sessions
  <2>4. Courses'
    BY <1>8, <1>0, <1>n DEF CloseCall, CallOk, Goto, locks, tables, TypeOK, Courses, Found,
       Holding
  <2>5. Numbered'
    BY <1>8, <1>0, <1>n DEF CloseCall, Goto, locks, tables, TypeOK, Numbered, Holding
  <2>6. HealthStep
    BY <1>8 DEF CloseCall, HealthStep
  <2>7. QED
    BY <2>1, <2>2, <2>3, <2>4, <2>5, <2>6 DEF OrderGoal
<1>9. ASSUME NEW a \in Agents, CloseFails(a) PROVE OrderGoal
  <2>1. TypeOK'
    BY <1>9, <1>0, <1>n DEF CloseFails, CallFails, UnlockSession, Done, Goto, tables,
       TypeOK, Sessions, Handles, None, Health
  <2>2. Owned'
    BY <1>9, <1>0, <1>n DEF CloseFails, UnlockSession, Done, Goto, tables, TypeOK, Owned
  <2>3. Found'
    BY <1>9, <1>0, <1>n DEF CloseFails, Done, Goto, tables, TypeOK, Found, None, Sessions
  <2>4. Courses'
    BY <1>9, <1>0, <1>n DEF CloseFails, CallFails, Done, Goto, tables, TypeOK, Courses,
       Found, Holding
  <2>5. Numbered'
    BY <1>9, <1>0, <1>n DEF CloseFails, Done, Goto, tables, TypeOK, Numbered, Holding
  <2>6. HealthStep
    BY <1>9 DEF CloseFails, HealthStep
  <2>7. QED
    BY <2>1, <2>2, <2>3, <2>4, <2>5, <2>6 DEF OrderGoal
<1>10. ASSUME NEW a \in Agents, CloseShutdown(a) PROVE OrderGoal
  <2>1. TypeOK'
    BY <1>10, <1>0, <1>n DEF CloseShutdown, CallOk, UnlockSession, Goto, tables, TypeOK,
       Sessions, Handles, None, Health
  <2>2. Owned'
    BY <1>10, <1>0, <1>n DEF CloseShutdown, UnlockSession, Goto, tables, TypeOK, Owned
  <2>3. Found'
    BY <1>10, <1>0, <1>n DEF CloseShutdown, Goto, tables, TypeOK, Found, None, Sessions
  <2>4. Courses'
    BY <1>10, <1>0, <1>n DEF CloseShutdown, CallOk, Goto, tables, TypeOK, Courses, Found,
       Holding
  <2>5. Numbered'
    BY <1>10, <1>0, <1>n DEF CloseShutdown, Goto, tables, TypeOK, Numbered, Holding
  <2>6. HealthStep
    BY <1>10 DEF CloseShutdown, HealthStep
  <2>7. QED
    BY <2>1, <2>2, <2>3, <2>4, <2>5, <2>6 DEF OrderGoal
<1>11. ASSUME NEW a \in Agents, ListStart(a) PROVE OrderGoal
  <2>1. TypeOK'
    BY <1>11, <1>0 DEF ListStart, LockPool, Goto, tables, sessions, TypeOK
  <2>2. Owned'
    BY <1>11, <1>0, <1>n DEF ListStart, LockPool, Goto, tables, sessions, TypeOK, Owned
  <2>3. Found'
    BY <1>11, <1>0, <1>n DEF ListStart, LockPool, Goto, tables, sessions, TypeOK, Found,
       None, Sessions
  <2>4. Courses'
    BY <1>11, <1>0, <1>n DEF ListStart, LockPool, Goto, tables, sessions, TypeOK, Courses,
       Found, Holding
  <2>5. Numbered'
    BY <1>11, <1>0, <1>n DEF ListStart, LockPool, Goto, tables, sessions, TypeOK, Numbered,
       Holding
  <2>6. HealthStep
    BY <1>11 DEF ListStart, sessions, HealthStep
  <2>7. QED
    BY <2>1, <2>2, <2>3, <2>4, <2>5, <2>6 DEF OrderGoal
<1>12. ASSUME NEW a \in Agents, HealthStart(a) PROVE OrderGoal
  <2>1. TypeOK'
    BY <1>12, <1>0 DEF HealthStart, LockPool, Goto, tables, sessions, TypeOK
  <2>2. Owned'
    BY <1>12, <1>0, <1>n DEF HealthStart, LockPool, Goto, tables, sessions, TypeOK, Owned
  <2>3. Found'
    BY <1>12, <1>0, <1>n DEF HealthStart, LockPool, Goto, tables, sessions, TypeOK, Found,
       None, Sessions
  <2>4. Courses'
    BY <1>12, <1>0, <1>n DEF HealthStart, LockPool, Goto, tables, sessions, TypeOK,
       Courses, Found, Holding
  <2>5. Numbered'
    BY <1>12, <1>0, <1>n DEF HealthStart, LockPool, Goto, tables, sessions, TypeOK,
       Numbered, Holding
  <2>6. HealthStep
    BY <1>12 DEF HealthStart, sessions, HealthStep
  <2>7. QED
    BY <2>1, <2>2, <2>3, <2>4, <2>5, <2>6 DEF OrderGoal
<1>13. ASSUME NEW a \in Agents, HealthLocksDbs(a) PROVE OrderGoal
  <2>1. TypeOK'
    BY <1>13, <1>0 DEF HealthLocksDbs, Goto, tables, sessions, TypeOK
  <2>2. Owned'
    BY <1>13, <1>0, <1>n DEF HealthLocksDbs, Goto, tables, sessions, TypeOK, Owned
  <2>3. Found'
    BY <1>13, <1>0, <1>n DEF HealthLocksDbs, Goto, tables, sessions, TypeOK, Found, None,
       Sessions
  <2>4. Courses'
    BY <1>13, <1>0, <1>n DEF HealthLocksDbs, Goto, tables, sessions, TypeOK, Courses,
       Found, Holding
  <2>5. Numbered'
    BY <1>13, <1>0, <1>n DEF HealthLocksDbs, Goto, tables, sessions, TypeOK, Numbered,
       Holding
  <2>6. HealthStep
    BY <1>13 DEF HealthLocksDbs, sessions, HealthStep
  <2>7. QED
    BY <2>1, <2>2, <2>3, <2>4, <2>5, <2>6 DEF OrderGoal
<1>14. ASSUME NEW a \in Agents, SurveyNext(a) PROVE OrderGoal
  <2>1. TypeOK'
    <3>1. todo' \in [Agents -> SUBSET Sessions]
      BY <1>14, <1>0 DEF SurveyNext, TypeOK
    <3>2. QED
      BY <1>14, <1>0, <3>1 DEF SurveyNext, locks, tables, sessions, TypeOK
  <2>2. Owned'
    BY <1>14, <1>0 DEF SurveyNext, locks, Owned
  <2>3. Found'
    BY <1>14, <1>0 DEF SurveyNext, tables, Found
  <2>4. Courses'
    BY <1>14, <1>0, <1>n DEF SurveyNext, locks, tables, sessions, TypeOK, Courses, Found,
       Holding
  <2>5. Numbered'
    BY <1>14, <1>0, <1>n DEF SurveyNext, locks, tables, sessions, TypeOK, Numbered, Holding
  <2>6. HealthStep
    BY <1>14 DEF SurveyNext, sessions, HealthStep
  <2>7. QED
    BY <2>1, <2>2, <2>3, <2>4, <2>5, <2>6 DEF OrderGoal
<1>15. ASSUME NEW a \in Agents, SurveyEnd(a) PROVE OrderGoal
  <2>1. TypeOK'
    BY <1>15, <1>0 DEF SurveyEnd, Done, Goto, tables, sessions, TypeOK
  <2>2. Owned'
    BY <1>15, <1>0, <1>n DEF SurveyEnd, Done, Goto, tables, sessions, TypeOK, Owned
  <2>3. Found'
    BY <1>15, <1>0, <1>n DEF SurveyEnd, Done, Goto, tables, sessions, TypeOK, Found, None,
       Sessions
  <2>4. Courses'
    BY <1>15, <1>0, <1>n DEF SurveyEnd, Done, Goto, tables, sessions, TypeOK, Courses,
       Found, Holding
  <2>5. Numbered'
    BY <1>15, <1>0, <1>n DEF SurveyEnd, Done, Goto, tables, sessions, TypeOK, Numbered,
       Holding
  <2>6. HealthStep
    BY <1>15 DEF SurveyEnd, sessions, HealthStep
  <2>7. QED
    BY <2>1, <2>2, <2>3, <2>4, <2>5, <2>6 DEF OrderGoal
<1>16. ASSUME NEW a \in Agents, RecoverNothing(a) PROVE OrderGoal
  <2>1. TypeOK'
    BY <1>16, <1>0 DEF RecoverNothing, Done, Goto, tables, sessions, TypeOK
  <2>2. Owned'
    BY <1>16, <1>0, <1>n DEF RecoverNothing, Done, Goto, tables, sessions, TypeOK, Owned
  <2>3. Found'
    BY <1>16, <1>0, <1>n DEF RecoverNothing, Done, Goto, tables, sessions, TypeOK, Found,
       None, Sessions
  <2>4. Courses'
    BY <1>16, <1>0, <1>n DEF RecoverNothing, Done, Goto, tables, sessions, TypeOK, Courses,
       Found, Holding
  <2>5. Numbered'
    BY <1>16, <1>0, <1>n DEF RecoverNothing, Done, Goto, tables, sessions, TypeOK,
       Numbered, Holding
  <2>6. HealthStep
    BY <1>16 DEF RecoverNothing, sessions, HealthStep
  <2>7. QED
    BY <2>1, <2>2, <2>3, <2>4, <2>5, <2>6 DEF OrderGoal
<1>17. ASSUME NEW a \in Agents, RecoverBegins(a) PROVE OrderGoal
  <2>1. TypeOK'
    BY <1>17, <1>0 DEF RecoverBegins, Goto, locks, tables, TypeOK, Health
  <2>2. Owned'
    BY <1>17, <1>0, <1>n DEF RecoverBegins, Goto, locks, tables, TypeOK, Owned
  <2>3. Found'
    BY <1>17, <1>0, <1>n DEF RecoverBegins, Goto, locks, tables, TypeOK, Found, None,
       Sessions
  <2>4. Courses'
    BY <1>17, <1>0, <1>n DEF RecoverBegins, Goto, locks, tables, TypeOK, Courses, Found,
       Holding
  <2>5. Numbered'
    BY <1>17, <1>0, <1>n DEF RecoverBegins, Goto, locks, tables, TypeOK, Numbered, Holding
  <2>6. HealthStep
    BY <1>17, <1>0 DEF RecoverBegins, TypeOK, Courses, HealthStep
  <2>7. QED
    BY <2>1, <2>2, <2>3, <2>4, <2>5, <2>6 DEF OrderGoal
<1>18. ASSUME NEW a \in Agents, RespawnFails(a) PROVE OrderGoal
  <2>1. TypeOK'
    <3>1. sess[a] \in Sessions /\ failures[sess[a]] \in 0..MaxRestarts
      BY <1>18, <1>0, <1>n DEF RespawnFails, TypeOK, Found, Courses
    <3>2. failures' \in [Sessions -> 0..(MaxRestarts + 1)]
      BY <1>18, <1>0, <1>n, <3>1 DEF RespawnFails, CountFailure, TypeOK
    <3>3. health' \in [Sessions -> Health]
      BY <1>18, <1>0, <3>1 DEF RespawnFails, CountFailure, TypeOK, Health
    <3>4. /\ poolLock' \in Agents \cup {Nobody}
          /\ pc' \in [Agents -> Labels]
      BY <1>18, <1>0 DEF RespawnFails, CountFailure, Done, Goto, TypeOK, Labels
    <3>5. /\ hdl' \in [Agents -> Handles \cup {None}]
          /\ sess' \in [Agents -> Sessions \cup {None}]
          /\ fresh' \in [Agents -> Sessions \cup {None}]
          /\ todo' \in [Agents -> SUBSET Sessions]
      BY <1>18, <1>0 DEF RespawnFails, CountFailure, Done, TypeOK
    <3>6. /\ pump' \in [Sessions -> {"on", "reported", "silent", "done"}]
          /\ sessLock' \in [Sessions -> Agents \cup {Nobody}]
      BY <1>18, <1>0 DEF RespawnFails, CallFails, UnlockSession, TypeOK
    <3>7. UNCHANGED <<dbsLock, tables, proc>>
      BY <1>18 DEF RespawnFails
    <3>8. QED
      BY <1>0, <3>2, <3>3, <3>4, <3>5, <3>6, <3>7 DEF TypeOK, Labels, tables
  <2>2. Owned'
    BY <1>18, <1>0, <1>n DEF RespawnFails, CountFailure, Done, Goto, tables, TypeOK, Owned
  <2>3. Found'
    <3>1. \A b \in Agents : b # a => pc'[b] = pc[b] /\ sess'[b] = sess[b]
                                    /\ fresh'[b] = fresh[b]
      BY <1>18, <1>0 DEF RespawnFails, CountFailure, Done, Goto, TypeOK
    <3>2. /\ pc'[a] \in {"idle", "respawn"} /\ pc[a] \in {"respawn", "reopen"}
          /\ pc'[a] = "respawn" => sess'[a] = sess[a]
          /\ sess'[a] \in {sess[a], None}
      BY <1>18, <1>0 DEF RespawnFails, CountFailure, Done, Goto, TypeOK
    <3>3. nextSess' = nextSess /\ 0 < nextSess
      BY <1>18, <1>0 DEF RespawnFails, tables, TypeOK
    <3>4. QED
      BY <1>0, <3>1, <3>2, <3>3 DEF Found, None, Sessions
  <2>4. Courses'
    BY <1>18, <1>0, <1>n DEF RespawnFails, CountFailure, Done, Goto, tables, TypeOK,
       Courses, Found, Holding
  <2>5. Numbered'
    BY <1>18, <1>0, <1>n DEF RespawnFails, CountFailure, Done, Goto, tables, TypeOK,
       Numbered, Holding
  <2>6. HealthStep
    BY <1>18, <1>0 DEF RespawnFails, CountFailure, TypeOK, Courses, HealthStep
  <2>7. QED
    BY <2>1, <2>2, <2>3, <2>4, <2>5, <2>6 DEF OrderGoal
<1>19. ASSUME NEW a \in Agents, ReopenFails(a) PROVE OrderGoal
  <2>1. TypeOK'
    <3>1. sess[a] \in Sessions /\ failures[sess[a]] \in 0..MaxRestarts
      BY <1>19, <1>0, <1>n DEF ReopenFails, TypeOK, Found, Courses
    <3>2. failures' \in [Sessions -> 0..(MaxRestarts + 1)]
      BY <1>19, <1>0, <1>n, <3>1 DEF ReopenFails, CountFailure, TypeOK
    <3>3. health' \in [Sessions -> Health]
      BY <1>19, <1>0, <3>1 DEF ReopenFails, CountFailure, TypeOK, Health
    <3>4. /\ poolLock' \in Agents \cup {Nobody}
          /\ pc' \in [Agents -> Labels]
      BY <1>19, <1>0 DEF ReopenFails, CountFailure, Done, Goto, TypeOK, Labels
    <3>5. /\ hdl' \in [Agents -> Handles \cup {None}]
          /\ sess' \in [Agents -> Sessions \cup {None}]
          /\ fresh' \in [Agents -> Sessions \cup {None}]
          /\ todo' \in [Agents -> SUBSET Sessions]
      BY <1>19, <1>0 DEF ReopenFails, CountFailure, Done, TypeOK
    <3>6. /\ pump' \in [Sessions -> {"on", "reported", "silent", "done"}]
          /\ sessLock' \in [Sessions -> Agents \cup {Nobody}]
      BY <1>19, <1>0 DEF ReopenFails, CallFails, UnlockSession, TypeOK
    <3>7. UNCHANGED <<dbsLock, tables, proc>>
      BY <1>19 DEF ReopenFails
    <3>8. QED
      BY <1>0, <3>2, <3>3, <3>4, <3>5, <3>6, <3>7 DEF TypeOK, Labels, tables
  <2>2. Owned'
    BY <1>19, <1>0, <1>n DEF ReopenFails, CountFailure, UnlockSession, Done, Goto, tables,
       TypeOK, Owned
  <2>3. Found'
    <3>1. \A b \in Agents : b # a => pc'[b] = pc[b] /\ sess'[b] = sess[b]
                                    /\ fresh'[b] = fresh[b]
      BY <1>19, <1>0 DEF ReopenFails, CountFailure, Done, Goto, TypeOK
    <3>2. /\ pc'[a] \in {"idle", "respawn"} /\ pc[a] \in {"respawn", "reopen"}
          /\ pc'[a] = "respawn" => sess'[a] = sess[a]
          /\ sess'[a] \in {sess[a], None}
      BY <1>19, <1>0 DEF ReopenFails, CountFailure, Done, Goto, TypeOK
    <3>3. nextSess' = nextSess /\ 0 < nextSess
      BY <1>19, <1>0 DEF ReopenFails, tables, TypeOK
    <3>4. QED
      BY <1>0, <3>1, <3>2, <3>3 DEF Found, None, Sessions
  <2>4. Courses'
    BY <1>19, <1>0, <1>n, SMTT(60) DEF ReopenFails, CountFailure, CallFails, Done, Goto,
       tables, TypeOK, Courses, Found, Holding
  <2>5. Numbered'
    BY <1>19, <1>0, <1>n DEF ReopenFails, CountFailure, Done, Goto, tables, TypeOK,
       Numbered, Holding
  <2>6. HealthStep
    BY <1>19, <1>0 DEF ReopenFails, CountFailure, TypeOK, Courses, HealthStep
  <2>7. QED
    BY <2>1, <2>2, <2>3, <2>4, <2>5, <2>6 DEF OrderGoal
<1>20. ASSUME NEW a \in Agents, NEW h \in Handles, NEW l \in {"lock", "closelock"},
              Resolve(a, h, l) PROVE OrderGoal
  <2>1. TypeOK'
    BY <1>20, <1>0 DEF Resolve, Goto, locks, tables, sessions, TypeOK
  <2>2. Owned'
    BY <1>20, <1>0, <1>n DEF Resolve, Goto, locks, tables, sessions, TypeOK, Owned
  <2>3. Found'
    <3>1. PICK s \in Sessions : <<h, s>> \in slots /\ sess' = [sess EXCEPT ![a] = s]
      BY <1>20 DEF Resolve
    <3>2. h \in Nat /\ s \in Nat
      BY <1>n, <3>1 DEF Sessions, Handles
    <3>3. s < nextSess /\ \A b \in Agents : pc[b] = "reopen" => s # fresh[b]
      BY <1>0, <3>1, <3>2 DEF DrawnOnce
    <3>4. QED
      BY <1>20, <1>0, <1>n, <3>1, <3>3 DEF Resolve, Goto, locks, tables, sessions, TypeOK,
         Found
  <2>4. Courses'
    BY <1>20, <1>0, <1>n DEF Resolve, Goto, locks, tables, sessions, TypeOK, Courses,
       Found, Holding
  <2>5. Numbered'
    BY <1>20, <1>0, <1>n DEF Resolve, Goto, locks, tables, sessions, TypeOK, Numbered,
       Holding
  <2>6. HealthStep
    BY <1>20 DEF Resolve, sessions, HealthStep
  <2>7. QED
    BY <2>1, <2>2, <2>3, <2>4, <2>5, <2>6 DEF OrderGoal
<1>21. ASSUME NEW a \in Agents, NEW h \in Handles, RecoverStart(a, h) PROVE OrderGoal
  <2>1. TypeOK'
    BY <1>21, <1>0 DEF RecoverStart, LockPool, Goto, tables, sessions, TypeOK
  <2>2. Owned'
    BY <1>21, <1>0, <1>n DEF RecoverStart, LockPool, Goto, tables, sessions, TypeOK, Owned
  <2>3. Found'
    <3>1. PICK s \in Sessions : <<h, s>> \in slots /\ sess' = [sess EXCEPT ![a] = s]
      BY <1>21 DEF RecoverStart
    <3>2. h \in Nat /\ s \in Nat
      BY <1>n, <3>1 DEF Sessions, Handles
    <3>3. s < nextSess /\ \A b \in Agents : pc[b] = "reopen" => s # fresh[b]
      BY <1>0, <3>1, <3>2 DEF DrawnOnce
    <3>4. QED
      BY <1>21, <1>0, <1>n, <3>1, <3>3 DEF RecoverStart, LockPool, Goto, tables, sessions,
         TypeOK, Found
  <2>4. Courses'
    BY <1>21, <1>0, <1>n DEF RecoverStart, LockPool, Goto, tables, sessions, TypeOK,
       Courses, Found, Holding
  <2>5. Numbered'
    BY <1>21, <1>0, <1>n DEF RecoverStart, LockPool, Goto, tables, sessions, TypeOK,
       Numbered, Holding
  <2>6. HealthStep
    BY <1>21 DEF RecoverStart, sessions, HealthStep
  <2>7. QED
    BY <2>1, <2>2, <2>3, <2>4, <2>5, <2>6 DEF OrderGoal
<1>22. ASSUME NEW a \in Agents, OpenSpawns(a) PROVE OrderGoal
  <2>1. TypeOK'
    <3>1. nextSess \in Sessions /\ nextSess' \in 1..(MaxSessions + 1)
      BY <1>22, <1>0, <1>n DEF OpenSpawns, NewSession, TypeOK, Sessions
    <3>2. QED
      BY <1>22, <1>0, <3>1 DEF OpenSpawns, NewSession, Goto, TypeOK
  <2>2. Owned'
    BY <1>22, <1>0, <1>n DEF OpenSpawns, NewSession, Goto, TypeOK, Owned
  <2>3. Found'
    <3>1. nextSess \in Sessions /\ nextSess' = nextSess + 1 /\ nextSess \in Nat
      BY <1>22, <1>0, <1>n DEF OpenSpawns, NewSession, TypeOK, Sessions
    <3>2. \A b \in Agents : sess[b] \in Nat /\ sess[b] < nextSess
      BY <1>0, <1>n DEF TypeOK, Found, Sessions, None
    <3>3. \A b \in Agents : sess'[b] = sess[b] 
                         /\ fresh'[b] = (IF b = a THEN nextSess ELSE fresh[b])
      BY <1>22, <1>0 DEF OpenSpawns, NewSession, TypeOK
    <3>4. \A b \in Agents : pc'[b] = (IF b = a THEN "open" ELSE pc[b])
      BY <1>22, <1>0 DEF OpenSpawns, NewSession, Goto, TypeOK
    <3>5. pc[a] = "spawn"
      BY <1>22 DEF OpenSpawns
    <3>6. QED
      BY <1>0, <3>1, <3>2, <3>3, <3>4, <3>5 DEF Found
  <2>4. Courses'
    BY <1>22, <1>0, <1>n DEF OpenSpawns, NewSession, Goto, TypeOK, Courses, Found, Holding
  <2>5. Numbered'
    BY <1>22, <1>0, <1>n DEF OpenSpawns, NewSession, Goto, TypeOK, Numbered, Holding
  <2>6. HealthStep
    BY <1>22 DEF OpenSpawns, NewSession, HealthStep
  <2>7. QED
    BY <2>1, <2>2, <2>3, <2>4, <2>5, <2>6 DEF OrderGoal
<1>23. ASSUME NEW a \in Agents, Respawn(a) PROVE OrderGoal
  <2>1. TypeOK'
    <3>1. nextSess \in Sessions /\ nextSess' \in 1..(MaxSessions + 1)
      BY <1>23, <1>0, <1>n DEF Respawn, NewSession, TypeOK, Sessions
    <3>2. QED
      BY <1>23, <1>0, <3>1 DEF Respawn, NewSession, Goto, TypeOK
  <2>2. Owned'
    BY <1>23, <1>0, <1>n DEF Respawn, NewSession, Goto, TypeOK, Owned
  <2>3. Found'
    <3>1. nextSess \in Sessions /\ nextSess' = nextSess + 1 /\ nextSess \in Nat
      BY <1>23, <1>0, <1>n DEF Respawn, NewSession, TypeOK, Sessions
    <3>2. \A b \in Agents : sess[b] \in Nat /\ sess[b] < nextSess
      BY <1>0, <1>n DEF TypeOK, Found, Sessions, None
    <3>3. \A b \in Agents : sess'[b] = sess[b] 
                         /\ fresh'[b] = (IF b = a THEN nextSess ELSE fresh[b])
      BY <1>23, <1>0 DEF Respawn, NewSession, TypeOK
    <3>4. \A b \in Agents : pc'[b] = (IF b = a THEN "reopen" ELSE pc[b])
      BY <1>23, <1>0 DEF Respawn, NewSession, Goto, TypeOK
    <3>5. pc[a] = "respawn"
      BY <1>23 DEF Respawn
    <3>6. QED
      BY <1>0, <3>1, <3>2, <3>3, <3>4, <3>5 DEF Found
  <2>4. Courses'
    BY <1>23, <1>0, <1>n DEF Respawn, NewSession, Goto, TypeOK, Courses, Found, Holding
  <2>5. Numbered'
    BY <1>23, <1>0, <1>n DEF Respawn, NewSession, Goto, TypeOK, Numbered, Holding
  <2>6. HealthStep
    BY <1>23 DEF Respawn, NewSession, HealthStep
  <2>7. QED
    BY <2>1, <2>2, <2>3, <2>4, <2>5, <2>6 DEF OrderGoal
<1>24. ASSUME NEW a \in Agents, OpenSucceeds(a) PROVE OrderGoal
  <2>1. TypeOK'
    <3>1. /\ fresh[a] \in Sessions
          /\ nextHandle \in Handles
          /\ nextHandle + 1 \in 1..(MaxSessions + 1)
      BY <1>24, <1>0, <1>n DEF OpenSucceeds, TypeOK, Found, Numbered, Sessions, Handles
    <3>2. slots' \in SUBSET (Handles \X Sessions)
      BY <1>24, <1>0, <3>1 DEF OpenSucceeds, TypeOK
    <3>3. hdl' \in [Agents -> Handles \cup {None}] /\ nextHandle' \in 1..(MaxSessions + 1)
      BY <1>24, <1>0, <3>1 DEF OpenSucceeds, TypeOK
    <3>4. sessLock' \in [Sessions -> Agents \cup {Nobody}] /\ pc' \in [Agents -> Labels]
      BY <1>24, <1>0 DEF OpenSucceeds, UnlockSession, Goto, TypeOK, Labels
    <3>5. QED
      BY <1>24, <1>0, <3>2, <3>3, <3>4 DEF OpenSucceeds, CallOk, TypeOK, Labels
  <2>2. Owned'
    BY <1>24, <1>0, <1>n DEF OpenSucceeds, UnlockSession, Goto, TypeOK, Owned
  <2>3. Found'
    BY <1>24, <1>0, <1>n DEF OpenSucceeds, Goto, TypeOK, Found, None, Sessions
  <2>4. Courses'
    BY <1>24, <1>0, <1>n DEF OpenSucceeds, CallOk, Goto, TypeOK, Courses, Found, Holding
  <2>5. Numbered'
    BY <1>24, <1>0, <1>n DEF OpenSucceeds, Goto, TypeOK, Numbered, Holding
  <2>6. HealthStep
    BY <1>24 DEF OpenSucceeds, HealthStep
  <2>7. QED
    BY <2>1, <2>2, <2>3, <2>4, <2>5, <2>6 DEF OrderGoal
<1>25. ASSUME NEW a \in Agents, OpenLists(a) PROVE OrderGoal
  <2>1. TypeOK'
    <3>1. hdl[a] \in Handles
      BY <1>25, <1>0 DEF OpenLists, Holding, Listed, TypeOK
    <3>2. QED
      BY <1>25, <1>0, <3>1 DEF OpenLists, Goto, locks, sessions, TypeOK
  <2>2. Owned'
    BY <1>25, <1>0, <1>n DEF OpenLists, Goto, locks, sessions, TypeOK, Owned
  <2>3. Found'
    BY <1>25, <1>0, <1>n DEF OpenLists, Goto, locks, sessions, TypeOK, Found, None, Sessions
  <2>4. Courses'
    BY <1>25, <1>0, <1>n DEF OpenLists, Goto, locks, sessions, TypeOK, Courses, Found,
       Holding
  <2>5. Numbered'
    BY <1>25, <1>0, <1>n DEF OpenLists, Goto, locks, sessions, TypeOK, Numbered, Holding
  <2>6. HealthStep
    BY <1>25 DEF OpenLists, sessions, HealthStep
  <2>7. QED
    BY <2>1, <2>2, <2>3, <2>4, <2>5, <2>6 DEF OrderGoal
<1>26. ASSUME NEW a \in Agents, CloseRetain(a) PROVE OrderGoal
  <2>1. TypeOK'
    BY <1>26, <1>0 DEF CloseRetain, Goto, locks, sessions, TypeOK
  <2>2. Owned'
    BY <1>26, <1>0, <1>n DEF CloseRetain, Goto, locks, sessions, TypeOK, Owned
  <2>3. Found'
    BY <1>26, <1>0, <1>n DEF CloseRetain, Goto, locks, sessions, TypeOK, Found, None,
       Sessions
  <2>4. Courses'
    BY <1>26, <1>0, <1>n DEF CloseRetain, Goto, locks, sessions, TypeOK, Courses, Found,
       Holding
  <2>5. Numbered'
    BY <1>26, <1>0, <1>n DEF CloseRetain, Goto, locks, sessions, TypeOK, Numbered, Holding
  <2>6. HealthStep
    BY <1>26 DEF CloseRetain, sessions, HealthStep
  <2>7. QED
    BY <2>1, <2>2, <2>3, <2>4, <2>5, <2>6 DEF OrderGoal
<1>27. ASSUME NEW a \in Agents, CloseUnlists(a) PROVE OrderGoal
  <2>1. TypeOK'
    BY <1>27, <1>0 DEF CloseUnlists, Done, Goto, locks, sessions, TypeOK
  <2>2. Owned'
    BY <1>27, <1>0, <1>n DEF CloseUnlists, Done, Goto, locks, sessions, TypeOK, Owned
  <2>3. Found'
    BY <1>27, <1>0, <1>n DEF CloseUnlists, Done, Goto, locks, sessions, TypeOK, Found,
       None, Sessions
  <2>4. Courses'
    BY <1>27, <1>0, <1>n DEF CloseUnlists, Done, Goto, locks, sessions, TypeOK, Courses,
       Found, Holding
  <2>5. Numbered'
    BY <1>27, <1>0, <1>n DEF CloseUnlists, Done, Goto, locks, sessions, TypeOK, Numbered,
       Holding
  <2>6. HealthStep
    BY <1>27 DEF CloseUnlists, sessions, HealthStep
  <2>7. QED
    BY <2>1, <2>2, <2>3, <2>4, <2>5, <2>6 DEF OrderGoal
<1>28. ASSUME NEW a \in Agents, Reopens(a) PROVE OrderGoal
  <2>1. TypeOK'
    <3>1. fresh[a] \in Sessions /\ nextHandle + 1 \in 1..(MaxSessions + 1)
      BY <1>28, <1>0, <1>n DEF Reopens, TypeOK, Found, Numbered
    <3>2. hdl[a] \in Handles
      BY <1>28, <1>0 DEF Reopens, Holding, Listed, TypeOK
    <3>3. slots' \in SUBSET (Handles \X Sessions) /\ nextHandle' \in 1..(MaxSessions + 1)
      BY <1>28, <1>0, <3>1, <3>2 DEF Reopens, TypeOK
    <3>4. /\ pc' \in [Agents -> Labels]
          /\ hdl' \in [Agents -> Handles \cup {None}]
          /\ sess' \in [Agents -> Sessions \cup {None}]
          /\ fresh' \in [Agents -> Sessions \cup {None}]
          /\ todo' \in [Agents -> SUBSET Sessions]
      BY <1>28, <1>0 DEF Reopens, Done, Goto, TypeOK, Labels
    <3>5. /\ sessLock' \in [Sessions -> Agents \cup {Nobody}]
          /\ poolLock' \in Agents \cup {Nobody}
      BY <1>28, <1>0 DEF Reopens, UnlockSession, TypeOK
    <3>6. QED
      BY <1>28, <1>0, <3>3, <3>4, <3>5 DEF Reopens, CallOk, TypeOK, Labels
  <2>2. Owned'
    BY <1>28, <1>0, <1>n DEF Reopens, UnlockSession, Done, Goto, TypeOK, Owned
  <2>3. Found'
    BY <1>28, <1>0, <1>n DEF Reopens, Done, Goto, TypeOK, Found, None, Sessions
  <2>4. Courses'
    BY <1>28, <1>0, <1>n DEF Reopens, CallOk, Done, Goto, TypeOK, Courses, Found, Holding
  <2>5. Numbered'
    BY <1>28, <1>0, <1>n DEF Reopens, Done, Goto, TypeOK, Numbered, Holding
  <2>6. HealthStep
    BY <1>28 DEF Reopens, HealthStep
  <2>7. QED
    BY <2>1, <2>2, <2>3, <2>4, <2>5, <2>6 DEF OrderGoal
<1>29. ASSUME NEW s \in Sessions, WorkerDies(s) PROVE OrderGoal
  <2>1. TypeOK'
    BY <1>29, <1>0 DEF WorkerDies, locks, tables, agents, TypeOK
  <2>2. Owned'
    BY <1>29, <1>0, <1>n DEF WorkerDies, locks, tables, agents, TypeOK, Owned
  <2>3. Found'
    BY <1>29, <1>0, <1>n DEF WorkerDies, locks, tables, agents, TypeOK, Found, None,
       Sessions
  <2>4. Courses'
    BY <1>29, <1>0, <1>n DEF WorkerDies, locks, tables, agents, TypeOK, Courses, Found,
       Holding
  <2>5. Numbered'
    BY <1>29, <1>0, <1>n DEF WorkerDies, locks, tables, agents, TypeOK, Numbered, Holding
  <2>6. HealthStep
    BY <1>29 DEF WorkerDies, HealthStep
  <2>7. QED
    BY <2>1, <2>2, <2>3, <2>4, <2>5, <2>6 DEF OrderGoal
<1>30. ASSUME NEW s \in Sessions, PumpReports(s) PROVE OrderGoal
  <2>1. TypeOK'
    BY <1>30, <1>0 DEF PumpReports, locks, tables, agents, TypeOK
  <2>2. Owned'
    BY <1>30, <1>0, <1>n DEF PumpReports, locks, tables, agents, TypeOK, Owned
  <2>3. Found'
    BY <1>30, <1>0, <1>n DEF PumpReports, locks, tables, agents, TypeOK, Found, None,
       Sessions
  <2>4. Courses'
    BY <1>30, <1>0, <1>n DEF PumpReports, locks, tables, agents, TypeOK, Courses, Found,
       Holding
  <2>5. Numbered'
    BY <1>30, <1>0, <1>n DEF PumpReports, locks, tables, agents, TypeOK, Numbered, Holding
  <2>6. HealthStep
    BY <1>30 DEF PumpReports, HealthStep
  <2>7. QED
    BY <2>1, <2>2, <2>3, <2>4, <2>5, <2>6 DEF OrderGoal
<1>31. ASSUME NEW s \in Sessions, MarkCrashed(s) PROVE OrderGoal
  <2>1. TypeOK'
    BY <1>31, <1>0 DEF MarkCrashed, locks, tables, agents, TypeOK, Health
  <2>2. Owned'
    BY <1>31, <1>0, <1>n DEF MarkCrashed, locks, tables, agents, TypeOK, Owned
  <2>3. Found'
    BY <1>31, <1>0, <1>n DEF MarkCrashed, locks, tables, agents, TypeOK, Found, None,
       Sessions
  <2>4. Courses'
    BY <1>31, <1>0, <1>n DEF MarkCrashed, locks, tables, agents, TypeOK, Courses, Found,
       Holding
  <2>5. Numbered'
    BY <1>31, <1>0, <1>n DEF MarkCrashed, locks, tables, agents, TypeOK, Numbered, Holding
  <2>6. HealthStep
    BY <1>31, <1>0 DEF MarkCrashed, TypeOK, Courses, HealthStep
  <2>7. QED
    BY <2>1, <2>2, <2>3, <2>4, <2>5, <2>6 DEF OrderGoal
<1>32. ASSUME UNCHANGED vars PROVE OrderGoal
  <2>1. TypeOK'
    BY <1>32, <1>0 DEF vars, locks, tables, sessions, agents, TypeOK
  <2>2. Owned' /\ Found'
    BY <1>32, <1>0 DEF vars, locks, tables, sessions, agents, Owned, Found
  <2>3. Courses' /\ Numbered'
    BY <1>32, <1>0 DEF vars, locks, tables, sessions, agents, Courses, Numbered
  <2>4. HealthStep
    BY <1>32 DEF vars, locks, tables, sessions, agents, HealthStep
  <2>5. QED
    BY <2>1, <2>2, <2>3, <2>4 DEF OrderGoal
<1>33. QED
  BY <1>1, <1>2, <1>3, <1>4, <1>5, <1>6, <1>6a, <1>6b, <1>6c, <1>7, <1>8, <1>9,
     <1>10, <1>11, <1>12, <1>13,
     <1>14, <1>15, <1>16, <1>17, <1>18, <1>19, <1>20, <1>21, <1>22, <1>23, <1>24, <1>25,
        <1>26, <1>27, <1>28, <1>29, <1>30, <1>31, <1>32
  DEF Next, Start, Step, OpenStep, UseStep, CloseStep, SurveyStep, RecoverStep

\* The invariant holds of every behaviour.
LEMMA OrderInvariant == Spec => []OrderInv
<1>1. Init => OrderInv
  <2> SUFFICES ASSUME Init PROVE OrderInv
    OBVIOUS
  <2>1. MaxSessions \in Nat /\ MaxRestarts \in Nat /\ Nobody \notin Agents
    BY PoolAssumption
  <2>2. TypeOK
    BY <2>1 DEF Init, TypeOK, Health
  <2>3. Owned /\ Found /\ Courses /\ Numbered
    BY <2>1 DEF Init, Owned, Found, Courses, Numbered, None, Sessions
  <2>4. QED
    BY <2>2, <2>3, PoolInitInv DEF OrderInv
<1>2. OrderInv /\ [Next]_vars => OrderInv'
  BY PoolStep, OrderStep DEF OrderInv, OrderGoal
<1>3. QED
  BY <1>1, <1>2, PTL DEF Spec

\* Every variable of the pool keeps its type: a session is tried at most
\* max_restarts + 1 times, and no handle or session is drawn that the bound on
\* sessions does not cover.
THEOREM PoolTypesAreKept == Spec => []TypeOK
<1>1. OrderInv => TypeOK
  BY DEF OrderInv
<1>2. QED
  BY OrderInvariant, <1>1, PTL

\* A session's health goes from Healthy to Crashed to Recovering to Dead and never
\* back, for any number of recoveries, crashes and tool calls.
THEOREM HealthStaysOnCourse == Spec => HealthFollowsMachine
<1>1. OrderInv /\ [Next]_vars => HealthStep
  BY OrderStep DEF OrderGoal
<1>2. HealthStep => (\A s \in Sessions :
         health'[s] = health[s] \/
         <<health[s], health'[s]>> \in {<<"Healthy", "Crashed">>,
                                        <<"Crashed", "Recovering">>,
                                        <<"Recovering", "Dead">>})
  BY DEF HealthStep
<1>3. QED
  BY OrderInvariant, <1>1, <1>2, PTL DEF Spec, HealthFollowsMachine

\* A tool call that waits for a mutex waits for a call that is further on in the
\* order pool, open_dbs, session, unless it is a large-function tool that asks for
\* the pool with its session locked: every circle of waiting calls, of any length,
\* goes through one of those.
THEOREM WaitsStayOrdered == Spec => []WaitsAreOrdered
<1>1. OrderInv => WaitsAreOrdered
  <2> SUFFICES ASSUME OrderInv, NEW a \in Agents, NEW b \in Agents, WaitsFor(a, b),
                      pc[a] # "regions"
               PROVE  Stage(a) < Stage(b)
    BY DEF WaitsAreOrdered
  <2>0. PoolTypes /\ Holding /\ TypeOK /\ Owned /\ Found
    BY DEF OrderInv, PoolInv
  <2>1. CASE pc[a] \in {"idle", "retain"} /\ poolLock = b
    BY <2>0, <2>1 DEF Owned, Stage
  <2>2. CASE pc[a] \in {"list", "unlist", "health"} /\ dbsLock = b
    BY <2>0, <2>2 DEF Owned, Stage
  <2>3. ASSUME NEW s \in Sessions, sessLock[s] = b,
               pc[a] \in {"info", "lock", "closelock", "recover", "respawn", "reopen",
                         "survey"},
               pc[b] = "reopen" => fresh[b] # s
        PROVE  Stage(a) < Stage(b)
    <3>1. pc[b] \in {"open", "use", "regions", "isolated", "save", "close", "shutdown"}
      BY <2>0, <2>3 DEF Owned
    <3>2. Stage(a) = 3 /\ Stage(b) = 4
      BY <2>3, <3>1 DEF Stage
    <3>3. QED
      BY <3>2
  <2>4. CASE pc[a] = "info" /\ sessLock[fresh[a]] = b
    BY <2>0, <2>3, <2>4 DEF Found, Holding
  <2>5. CASE /\ pc[a] \in {"lock", "closelock", "recover", "respawn", "reopen"}
             /\ sessLock[sess[a]] = b
    BY <2>0, <2>3, <2>5 DEF Found
  <2>6. CASE pc[a] = "survey" /\ \E s \in todo[a] : sessLock[s] = b
    BY <2>0, <2>3, <2>6 DEF TypeOK, Holding
  <2>7. QED
    BY <2>1, <2>2, <2>4, <2>5, <2>6 DEF WaitsFor
<1>2. QED
  BY OrderInvariant, <1>1, PTL

\* A step of the pool is a step of HandleTable or leaves its table alone.
LEMMA PoolStepImplements == PoolInv /\ [Next]_vars => [Table!Next]_(Table!vars)
<1> SUFFICES ASSUME PoolInv, [Next]_vars PROVE Table!Next \/ UNCHANGED Table!vars
  OBVIOUS
<1>0. PoolTypes /\ Holding /\ Nobody \notin Agents
  BY PoolAssumption DEF PoolInv
<1>s. ASSUME slots' = slots, nextHandle' = nextHandle, nextSess' = nextSess,
             \A b \in Agents :
                pc[b] \in {"open", "reopen"} <=> pc'[b] \in {"open", "reopen"},
             \A b \in Agents : pc[b] \in {"open", "reopen"} => fresh'[b] = fresh[b]
      PROVE  UNCHANGED Table!vars
  <2>1. Opening' = Opening
    BY <1>s DEF Opening
  <2>2. QED
    BY <1>s, <2>1 DEF Table!vars
<1>e. ASSUME NEW a \in Agents, pc[a] \in {"open", "reopen"},
             pc'[a] \notin {"open", "reopen"},
             \A b \in Agents : b # a => pc'[b] = pc[b]
      PROVE  fresh[a] \in Opening /\ Opening' = Opening \ {fresh[a]}
  <2>1. \A b \in Agents : pc[b] \in {"open", "reopen"} => b = a
    BY <1>0, <1>e DEF Holding
  <2>2. \A b \in Agents : pc'[b] \notin {"open", "reopen"}
    BY <1>e, <2>1
  <2>3. Opening = {fresh[a]}
    BY <1>e, <2>1 DEF Opening
  <2>4. Opening' = {}
    BY <2>2 DEF Opening
  <2>5. QED
    BY <2>3, <2>4
<1>1. ASSUME NEW a \in Agents, OpenStart(a) PROVE Table!Next \/ UNCHANGED Table!vars
  BY <1>1, <1>0, <1>s DEF OpenStart, LockPool, Goto, locks, tables, sessions, agents,
     PoolTypes
<1>2. ASSUME NEW a \in Agents, OpenRefused(a) PROVE Table!Next \/ UNCHANGED Table!vars
  BY <1>2, <1>0, <1>s DEF OpenRefused, Done, Goto, locks, tables, sessions, agents,
     PoolTypes
<1>3. ASSUME NEW a \in Agents, OpenFails(a) PROVE Table!Next \/ UNCHANGED Table!vars
  <2>1. /\ pc[a] \in {"open", "reopen"} /\ pc'[a] \notin {"open", "reopen"}
        /\ \A b \in Agents : b # a => pc'[b] = pc[b]
    BY <1>3, <1>0 DEF OpenFails, CallFails, UnlockSession, Done, Goto, PoolTypes
  <2>2. Table!GiveUp(fresh[a])
    BY <1>3, <1>e, <2>1 DEF OpenFails, tables, Table!GiveUp
  <2>3. QED
    BY <1>e, <2>1, <2>2 DEF Table!Next
<1>4. ASSUME NEW a \in Agents, OpenInfo(a) PROVE Table!Next \/ UNCHANGED Table!vars
  BY <1>4, <1>0, <1>s DEF OpenInfo, CallOk, CallFails, Done, Goto, locks, tables, sessions,
     agents, PoolTypes
<1>5. ASSUME NEW a \in Agents, UseLock(a) PROVE Table!Next \/ UNCHANGED Table!vars
  BY <1>5, <1>0, <1>s DEF UseLock, LockSession, Goto, locks, tables, sessions, agents,
     PoolTypes
<1>6. ASSUME NEW a \in Agents, UseCall(a) PROVE Table!Next \/ UNCHANGED Table!vars
  BY <1>6, <1>0, <1>s DEF UseCall, CallOk, CallFails, UnlockSession, Done, Goto, locks,
     tables, sessions, agents, PoolTypes
<1>6a. ASSUME NEW a \in Agents, LargeCalls(a) PROVE Table!Next \/ UNCHANGED Table!vars
  BY <1>6a, <1>0, <1>s DEF LargeCalls, CallOk, Goto, locks, tables, sessions,
     agents, PoolTypes
<1>6b. ASSUME NEW a \in Agents, LargeReadsPool(a) PROVE Table!Next \/ UNCHANGED Table!vars
  BY <1>6b, <1>0, <1>s DEF LargeReadsPool, UnlockSession, Done, Goto, locks, tables, sessions,
     agents, PoolTypes
<1>6c. ASSUME NEW a \in Agents, LargeEnds(a) PROVE Table!Next \/ UNCHANGED Table!vars
  BY <1>6c, <1>0, <1>s DEF LargeEnds, UnlockSession, Done, Goto, locks, tables, sessions,
     agents, PoolTypes
<1>7. ASSUME NEW a \in Agents, CloseLock(a) PROVE Table!Next \/ UNCHANGED Table!vars
  BY <1>7, <1>0, <1>s DEF CloseLock, LockSession, Goto, locks, tables, sessions, agents,
     PoolTypes
<1>8. ASSUME NEW a \in Agents, CloseCall(a) PROVE Table!Next \/ UNCHANGED Table!vars
  BY <1>8, <1>0, <1>s DEF CloseCall, CallOk, Goto, locks, tables, sessions, agents,
     PoolTypes
<1>9. ASSUME NEW a \in Agents, CloseFails(a) PROVE Table!Next \/ UNCHANGED Table!vars
  BY <1>9, <1>0, <1>s DEF CloseFails, CallFails, UnlockSession, Done, Goto, locks, tables,
     sessions, agents, PoolTypes
<1>10. ASSUME NEW a \in Agents, CloseShutdown(a) PROVE Table!Next \/ UNCHANGED Table!vars
  BY <1>10, <1>0, <1>s DEF CloseShutdown, CallOk, UnlockSession, Goto, locks, tables,
     sessions, agents, PoolTypes
<1>11. ASSUME NEW a \in Agents, ListStart(a) PROVE Table!Next \/ UNCHANGED Table!vars
  BY <1>11, <1>0, <1>s DEF ListStart, LockPool, Goto, locks, tables, sessions, agents,
     PoolTypes
<1>12. ASSUME NEW a \in Agents, HealthStart(a) PROVE Table!Next \/ UNCHANGED Table!vars
  BY <1>12, <1>0, <1>s DEF HealthStart, LockPool, Goto, locks, tables, sessions, agents,
     PoolTypes
<1>13. ASSUME NEW a \in Agents, HealthLocksDbs(a) PROVE Table!Next \/ UNCHANGED Table!vars
  BY <1>13, <1>0, <1>s DEF HealthLocksDbs, Goto, locks, tables, sessions, agents, PoolTypes
<1>14. ASSUME NEW a \in Agents, SurveyNext(a) PROVE Table!Next \/ UNCHANGED Table!vars
  BY <1>14, <1>0, <1>s DEF SurveyNext, locks, tables, sessions, agents, PoolTypes
<1>15. ASSUME NEW a \in Agents, SurveyEnd(a) PROVE Table!Next \/ UNCHANGED Table!vars
  BY <1>15, <1>0, <1>s DEF SurveyEnd, Done, Goto, locks, tables, sessions, agents, PoolTypes
<1>16. ASSUME NEW a \in Agents, RecoverNothing(a) PROVE Table!Next \/ UNCHANGED Table!vars
  BY <1>16, <1>0, <1>s DEF RecoverNothing, Done, Goto, locks, tables, sessions, agents,
     PoolTypes
<1>17. ASSUME NEW a \in Agents, RecoverBegins(a) PROVE Table!Next \/ UNCHANGED Table!vars
  BY <1>17, <1>0, <1>s DEF RecoverBegins, Goto, locks, tables, sessions, agents, PoolTypes
<1>18. ASSUME NEW a \in Agents, RespawnFails(a) PROVE Table!Next \/ UNCHANGED Table!vars
  BY <1>18, <1>0, <1>s DEF RespawnFails, CountFailure, Done, Goto, locks, tables, sessions,
     agents, PoolTypes
<1>19. ASSUME NEW a \in Agents, ReopenFails(a) PROVE Table!Next \/ UNCHANGED Table!vars
  <2>1. /\ pc[a] \in {"open", "reopen"} /\ pc'[a] \notin {"open", "reopen"}
        /\ \A b \in Agents : b # a => pc'[b] = pc[b]
    BY <1>19, <1>0 DEF ReopenFails, CountFailure, CallFails, UnlockSession, Done, Goto,
       PoolTypes
  <2>2. Table!GiveUp(fresh[a])
    BY <1>19, <1>e, <2>1 DEF ReopenFails, tables, Table!GiveUp
  <2>3. QED
    BY <1>e, <2>1, <2>2 DEF Table!Next
<1>20. ASSUME NEW a \in Agents, NEW h \in Handles, NEW l \in {"lock", "closelock"},
              Resolve(a, h, l) PROVE Table!Next \/ UNCHANGED Table!vars
  BY <1>20, <1>0, <1>s DEF Resolve, Goto, locks, tables, sessions, agents, PoolTypes
<1>21. ASSUME NEW a \in Agents, NEW h \in Handles, RecoverStart(a, h)
       PROVE  Table!Next \/ UNCHANGED Table!vars
  BY <1>21, <1>0, <1>s DEF RecoverStart, LockPool, Goto, locks, tables, sessions, agents,
     PoolTypes
<1>22. ASSUME NEW a \in Agents, OpenSpawns(a) PROVE Table!Next \/ UNCHANGED Table!vars
  <2>1. pc[a] \notin {"open", "reopen"} /\ pc' = [pc EXCEPT ![a] = "open"]
    BY <1>22 DEF OpenSpawns, NewSession, Goto
  <2>2. fresh' = [fresh EXCEPT ![a] = nextSess]
    BY <1>22 DEF OpenSpawns, NewSession
  <2>3. Opening' = Opening \cup {nextSess}
    BY <1>0, <2>1, <2>2 DEF Opening, PoolTypes
  <2>4. Table!Start
    BY <1>22, <1>0, <2>3 DEF OpenSpawns, NewSession, PoolTypes, Table!Start
  <2>5. QED
    BY <2>4 DEF Table!Next
<1>23. ASSUME NEW a \in Agents, Respawn(a) PROVE Table!Next \/ UNCHANGED Table!vars
  <2>1. pc[a] \notin {"open", "reopen"} /\ pc' = [pc EXCEPT ![a] = "reopen"]
    BY <1>23 DEF Respawn, NewSession, Goto
  <2>2. fresh' = [fresh EXCEPT ![a] = nextSess]
    BY <1>23 DEF Respawn, NewSession
  <2>3. Opening' = Opening \cup {nextSess}
    BY <1>0, <2>1, <2>2 DEF Opening, PoolTypes
  <2>4. Table!Start
    BY <1>23, <1>0, <2>3 DEF Respawn, NewSession, PoolTypes, Table!Start
  <2>5. QED
    BY <2>4 DEF Table!Next
<1>24. ASSUME NEW a \in Agents, OpenSucceeds(a) PROVE Table!Next \/ UNCHANGED Table!vars
  <2>1. /\ pc[a] \in {"open", "reopen"} /\ pc'[a] \notin {"open", "reopen"}
        /\ \A b \in Agents : b # a => pc'[b] = pc[b]
    BY <1>24, <1>0 DEF OpenSucceeds, CallOk, UnlockSession, Goto, PoolTypes
  <2>2. /\ nextHandle' - 1 = (nextHandle - 1) + 1 /\ (nextHandle - 1) + 1 = nextHandle
        /\ nextSess' = nextSess
    BY <1>24, <1>0 DEF OpenSucceeds, PoolTypes
  <2>3. Cardinality(slots) < MaxWorkers
    BY <1>24, <1>0 DEF OpenSucceeds, Holding
  <2>4. slots' = slots \cup {<<(nextHandle - 1) + 1, fresh[a]>>}
    BY <1>24, <2>2 DEF OpenSucceeds
  <2>5. fresh[a] \in Opening /\ Opening' = Opening \ {fresh[a]}
    BY <1>e, <2>1
  <2>6. Table!Cardinality(slots) = Cardinality(slots)
    BY DEF Table!Cardinality, Cardinality
  <2>7. Table!Open(fresh[a])
    BY <2>2, <2>3, <2>4, <2>5, <2>6 DEF Table!Open
  <2>8. QED
    BY <2>5, <2>7 DEF Table!Next
<1>25. ASSUME NEW a \in Agents, OpenLists(a) PROVE Table!Next \/ UNCHANGED Table!vars
  BY <1>25, <1>0, <1>s DEF OpenLists, Goto, locks, tables, sessions, agents, PoolTypes
<1>26. ASSUME NEW a \in Agents, CloseRetain(a) PROVE Table!Next \/ UNCHANGED Table!vars
  <2>1. /\ nextHandle' = nextHandle /\ nextSess' = nextSess
        /\ \A b \in Agents : pc[b] \in {"open", "reopen"} <=> pc'[b] \in {"open", "reopen"}
        /\ fresh' = fresh
    BY <1>26, <1>0 DEF CloseRetain, Goto, PoolTypes
  <2>2. CASE \E e \in slots : e[1] = hdl[a]
    <3>1. PICK e \in slots : e[1] = hdl[a]
      BY <2>2
    <3>2. Opening' = Opening
      BY <2>1 DEF Opening
    <3>3. Table!Close(e)
      BY <1>26, <2>1, <3>1, <3>2 DEF CloseRetain, Table!Close, Table!Without
    <3>4. QED
      BY <3>1, <3>3 DEF Table!Next
  <2>3. CASE ~\E e \in slots : e[1] = hdl[a]
    <3>1. slots' = slots
      BY <1>26, <2>3 DEF CloseRetain
    <3>2. QED
      BY <1>s, <2>1, <3>1
  <2>4. QED
    BY <2>2, <2>3
<1>27. ASSUME NEW a \in Agents, CloseUnlists(a) PROVE Table!Next \/ UNCHANGED Table!vars
  BY <1>27, <1>0, <1>s DEF CloseUnlists, Done, Goto, locks, tables, sessions, agents,
     PoolTypes
<1>28. ASSUME NEW a \in Agents, Reopens(a) PROVE Table!Next \/ UNCHANGED Table!vars
  <2>1. /\ pc[a] \in {"open", "reopen"} /\ pc'[a] \notin {"open", "reopen"}
        /\ \A b \in Agents : b # a => pc'[b] = pc[b]
    BY <1>28, <1>0 DEF Reopens, CallOk, UnlockSession, Done, Goto, PoolTypes
  <2>2. /\ nextHandle' - 1 = (nextHandle - 1) + 1 /\ (nextHandle - 1) + 1 = nextHandle
        /\ nextSess' = nextSess
    BY <1>28, <1>0 DEF Reopens, PoolTypes
  <2>3. PICK s \in Nat : <<hdl[a], s>> \in slots
    BY <1>28, <1>0 DEF Reopens, Holding, Listed
  <2>4. Table!Recover(<<hdl[a], s>>, fresh[a])
    BY <1>28, <1>e, <2>1, <2>2 DEF Reopens, Table!Recover, Table!Without
  <2>5. QED
    BY <1>e, <2>1, <2>3, <2>4 DEF Table!Next
<1>29. ASSUME NEW s \in Sessions, WorkerDies(s) PROVE Table!Next \/ UNCHANGED Table!vars
  BY <1>29, <1>0, <1>s DEF WorkerDies, locks, tables, sessions, agents, PoolTypes
<1>30. ASSUME NEW s \in Sessions, PumpReports(s) PROVE Table!Next \/ UNCHANGED Table!vars
  BY <1>30, <1>0, <1>s DEF PumpReports, locks, tables, sessions, agents, PoolTypes
<1>31. ASSUME NEW s \in Sessions, MarkCrashed(s) PROVE Table!Next \/ UNCHANGED Table!vars
  BY <1>31, <1>0, <1>s DEF MarkCrashed, locks, tables, sessions, agents, PoolTypes
<1>32. ASSUME UNCHANGED vars PROVE Table!Next \/ UNCHANGED Table!vars
  BY <1>32, <1>s DEF vars, tables, agents
<1>33. QED
  BY <1>1, <1>2, <1>3, <1>4, <1>5, <1>6, <1>6a, <1>6b, <1>6c, <1>7, <1>8, <1>9,
     <1>10, <1>11, <1>12, <1>13,
     <1>14, <1>15, <1>16, <1>17, <1>18, <1>19, <1>20, <1>21, <1>22, <1>23, <1>24, <1>25,
        <1>26, <1>27, <1>28, <1>29, <1>30, <1>31, <1>32
  DEF Next, Start, Step, OpenStep, UseStep, CloseStep, SurveyStep, RecoverStep

\* Opens, recoveries and closes change the pool's table as the atomic ones of
\* HandleTable do: the cap an open checked still holds when it lists its session,
\* and the handle a recovery looked up is still there when it swaps its own in.
THEOREM PoolImplementsHandleTable == Spec => ImplementsHandleTable
<1>1. Init => Table!Init
  BY DEF Init, Table!Init, Opening
<1>2. QED
  BY <1>1, PoolInitInv, PoolStep, PoolStepImplements, PTL DEF Spec, ImplementsHandleTable,
     Table!Spec
=============================================================================
