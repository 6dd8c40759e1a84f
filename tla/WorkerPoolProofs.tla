-------------------------- MODULE WorkerPoolProofs --------------------------
(***************************************************************************)
(* The pool, for every number of tool calls, sessions, workers and         *)
(* restarts: max_workers caps the sessions it lists, and its two tables    *)
(* agree.                                                                  *)
(***************************************************************************)
EXTENDS WorkerPool, FiniteSetTheorems, TLAPS

Labels == {"idle", "spawn", "open", "list", "info", "resolve", "lock", "use",
           "regions", "isolated", "closelock", "save", "close", "shutdown", "retain", "unlist",
           "health", "survey", "recover", "respawn", "reopen"}

\* The part of the types that the argument needs.
PoolTypes ==
    /\ pc \in [Agents -> Labels]
    /\ hdl \in [Agents -> Nat]
    /\ fresh \in [Agents -> Nat]
    /\ nextHandle \in Nat \ {0}
    /\ nextSess \in Nat \ {0}
    /\ slots \subseteq Nat \X Nat
    /\ IsFiniteSet(slots)
    /\ openDbs \subseteq Nat

Listed(h) == \E s \in Nat : <<h, s>> \in slots

\* A tool call between the check of the cap and its end holds the pool; a
\* recovery and a listing find their handle still in its slot.
Holding ==
    \A a \in Agents :
        /\ pc[a] \in {"spawn", "open", "list", "info", "health", "survey", "recover",
                      "respawn", "reopen"} => poolLock = a
        /\ pc[a] = "open" => Cardinality(slots) < MaxWorkers
        /\ pc[a] \in {"list", "recover", "respawn", "reopen"} => Listed(hdl[a])

\* Handles and sessions are drawn once: a handle that was closed does not come
\* back, and the session being opened has no slot yet.
DrawnOnce ==
    /\ \A h, s \in Nat : <<h, s>> \in slots => h < nextHandle /\ s < nextSess
    /\ \A h \in openDbs : h < nextHandle
    /\ \A a \in Agents :
          /\ hdl[a] < nextHandle
          /\ pc[a] = "unlist" => ~Listed(hdl[a])
          /\ pc[a] \in {"open", "reopen"} =>
               fresh[a] < nextSess /\ \A h \in Nat : <<h, fresh[a]>> \notin slots

\* TablesAgree, said of all numbers.
Agree ==
    /\ \A h \in Nat :
          /\ Listed(h) /\ h \notin openDbs => \E a \in Agents : pc[a] = "list" /\ hdl[a] = h
          /\ h \in openDbs /\ ~Listed(h) => \E a \in Agents : pc[a] = "unlist" /\ hdl[a] = h
    /\ \A h, g, s, r \in Nat :
          <<h, s>> \in slots /\ <<g, r>> \in slots /\ (h = g \/ s = r) => h = g /\ s = r

\* The inductive invariant.
PoolInv == PoolTypes /\ Holding /\ DrawnOnce /\ Agree /\ PoolIsCapped

\* The pool starts without sessions.
LEMMA PoolInitInv == Init => PoolInv
<1> SUFFICES ASSUME Init PROVE PoolInv
  OBVIOUS
<1> USE DEF Init
<1>1. Cardinality(slots) = 0 /\ IsFiniteSet(slots)
  BY FS_EmptySet
<1>2. PoolTypes
  BY <1>1 DEF PoolTypes, Labels, None
<1>3. Holding /\ DrawnOnce /\ Agree
  BY DEF Holding, DrawnOnce, Agree, Listed, None
<1>4. PoolIsCapped
  BY <1>1, PoolAssumption DEF PoolIsCapped
<1>5. QED
  BY <1>2, <1>3, <1>4 DEF PoolInv

\* The tables agree after a step that changes neither and leaves the tool calls
\* that are changing them where they are.
LEMMA AgreeFrame ==
    ASSUME PoolInv, slots' = slots, openDbs' = openDbs,
           \A b \in Agents : pc[b] \in {"list", "unlist"} => pc'[b] = pc[b] /\ hdl'[b] = hdl[b]
    PROVE  Agree'
<1>1. \A h : Listed(h)' <=> Listed(h)
  BY DEF Listed
<1>2. Agree
  BY DEF PoolInv
<1>3. ASSUME NEW h \in Nat, Listed(h)', h \notin openDbs'
      PROVE  \E a \in Agents : pc'[a] = "list" /\ hdl'[a] = h
  BY <1>1, <1>2, <1>3 DEF Agree
<1>4. ASSUME NEW h \in Nat, h \in openDbs', ~Listed(h)'
      PROVE  \E a \in Agents : pc'[a] = "unlist" /\ hdl'[a] = h
  BY <1>1, <1>2, <1>4 DEF Agree
<1>5. \A h, g, s, r \in Nat :
         <<h, s>> \in slots' /\ <<g, r>> \in slots' /\ (h = g \/ s = r) => h = g /\ s = r
  BY <1>2 DEF Agree
<1>6. QED
  BY <1>3, <1>4, <1>5 DEF Agree

\* With at most one entry more or less, the pool's list stays finite and grows by
\* at most one.
LEMMA SlotSets ==
    ASSUME IsFiniteSet(slots)
    PROVE  /\ Cardinality(slots) \in Nat
           /\ \A e : /\ IsFiniteSet(slots \cup {e})
                     /\ Cardinality(slots \cup {e}) <= Cardinality(slots) + 1
           /\ \A S \in SUBSET slots :
                 /\ IsFiniteSet(S)
                 /\ Cardinality(S) \in Nat
                 /\ Cardinality(S) <= Cardinality(slots)
           /\ \A f : \A e \in slots : \A S \in SUBSET (slots \ {e}) :
                 /\ IsFiniteSet(S \cup {f})
                 /\ Cardinality(S \cup {f}) <= Cardinality(slots)
<1>1. Cardinality(slots) \in Nat
  BY FS_CardinalityType
<1>2. ASSUME NEW e
      PROVE  IsFiniteSet(slots \cup {e}) /\ Cardinality(slots \cup {e}) <= Cardinality(slots) + 1
  <2>1. /\ IsFiniteSet(slots \cup {e})
        /\ Cardinality(slots \cup {e}) \in {Cardinality(slots), Cardinality(slots) + 1}
    BY FS_AddElement
  <2>2. QED
    BY <1>1, <2>1
<1>3. ASSUME NEW S \in SUBSET slots
      PROVE  IsFiniteSet(S) /\ Cardinality(S) \in Nat /\ Cardinality(S) <= Cardinality(slots)
  BY FS_Subset, FS_CardinalityType
<1>4. ASSUME NEW e \in slots, NEW S \in SUBSET (slots \ {e}), NEW f
      PROVE  IsFiniteSet(S \cup {f}) /\ Cardinality(S \cup {f}) <= Cardinality(slots)
  <2>1. IsFiniteSet(slots \ {e}) /\ Cardinality(slots \ {e}) = Cardinality(slots) - 1
    BY FS_RemoveElement
  <2>2. IsFiniteSet(S) /\ Cardinality(S) <= Cardinality(slots \ {e})
    BY <2>1, FS_Subset
  <2>3. Cardinality(S) \in Nat
    BY <2>2, FS_CardinalityType
  <2>4. IsFiniteSet(S \cup {f}) /\ Cardinality(S \cup {f}) \in {Cardinality(S), Cardinality(S) + 1}
    BY <2>2, FS_AddElement
  <2>5. QED
    BY <1>1, <2>1, <2>2, <2>3, <2>4
<1>5. QED
  BY <1>1, <1>2, <1>3, <1>4

\* Every step of a tool call, a worker or a monitor keeps the invariant.
LEMMA PoolStep == PoolInv /\ [Next]_vars => PoolInv'
<1> SUFFICES ASSUME PoolInv, [Next]_vars PROVE PoolInv'
  OBVIOUS
<1>0. PoolTypes /\ Holding /\ DrawnOnce /\ Agree /\ PoolIsCapped
  BY DEF PoolInv
<1>n. Nobody \notin Agents /\ MaxWorkers \in Nat
  BY PoolAssumption
<1>1. ASSUME NEW a \in Agents, OpenStart(a) PROVE PoolInv'
  <2>1. PoolTypes'
    BY <1>1, <1>0 DEF OpenStart, LockPool, Goto, tables, PoolTypes, Labels, None
  <2>2. Holding'
    BY <1>1, <1>0, <1>n DEF OpenStart, LockPool, Goto, tables, PoolTypes, Holding, Listed, Labels
  <2>3. DrawnOnce'
    BY <1>1, <1>0 DEF OpenStart, LockPool, Goto, tables, PoolTypes, DrawnOnce, Listed, None, Labels
  <2>4. Agree'
    BY <1>1, <1>0, AgreeFrame DEF OpenStart, LockPool, Goto, tables, PoolTypes
  <2>5. PoolIsCapped'
    BY <1>1, <1>0 DEF OpenStart, LockPool, Goto, tables, PoolIsCapped
  <2>6. QED
    BY <2>1, <2>2, <2>3, <2>4, <2>5 DEF PoolInv
<1>2. ASSUME NEW a \in Agents, OpenRefused(a) PROVE PoolInv'
  <2>1. PoolTypes'
    BY <1>2, <1>0 DEF OpenRefused, Done, Goto, tables, PoolTypes, Labels, None
  <2>2. Holding'
    BY <1>2, <1>0, <1>n DEF OpenRefused, Done, Goto, tables, PoolTypes, Holding, Listed, Labels
  <2>3. DrawnOnce'
    BY <1>2, <1>0 DEF OpenRefused, Done, Goto, tables, PoolTypes, DrawnOnce, Listed, None, Labels
  <2>4. Agree'
    BY <1>2, <1>0, AgreeFrame DEF OpenRefused, Done, Goto, tables, PoolTypes
  <2>5. PoolIsCapped'
    BY <1>2, <1>0 DEF OpenRefused, Done, Goto, tables, PoolIsCapped
  <2>6. QED
    BY <2>1, <2>2, <2>3, <2>4, <2>5 DEF PoolInv
<1>3. ASSUME NEW a \in Agents, OpenFails(a) PROVE PoolInv'
  <2>1. PoolTypes'
    BY <1>3, <1>0 DEF OpenFails, Done, Goto, tables, PoolTypes, Labels, None
  <2>2. Holding'
    BY <1>3, <1>0, <1>n DEF OpenFails, Done, Goto, tables, PoolTypes, Holding, Listed, Labels
  <2>3. DrawnOnce'
    BY <1>3, <1>0 DEF OpenFails, Done, Goto, tables, PoolTypes, DrawnOnce, Listed, None, Labels
  <2>4. Agree'
    BY <1>3, <1>0, AgreeFrame DEF OpenFails, Done, Goto, tables, PoolTypes
  <2>5. PoolIsCapped'
    BY <1>3, <1>0 DEF OpenFails, Done, Goto, tables, PoolIsCapped
  <2>6. QED
    BY <2>1, <2>2, <2>3, <2>4, <2>5 DEF PoolInv
<1>4. ASSUME NEW a \in Agents, OpenInfo(a) PROVE PoolInv'
  <2>1. PoolTypes'
    BY <1>4, <1>0 DEF OpenInfo, Done, Goto, tables, PoolTypes, Labels, None
  <2>2. Holding'
    BY <1>4, <1>0, <1>n DEF OpenInfo, Done, Goto, tables, PoolTypes, Holding, Listed, Labels
  <2>3. DrawnOnce'
    BY <1>4, <1>0 DEF OpenInfo, Done, Goto, tables, PoolTypes, DrawnOnce, Listed, None, Labels
  <2>4. Agree'
    BY <1>4, <1>0, AgreeFrame DEF OpenInfo, Done, Goto, tables, PoolTypes
  <2>5. PoolIsCapped'
    BY <1>4, <1>0 DEF OpenInfo, Done, Goto, tables, PoolIsCapped
  <2>6. QED
    BY <2>1, <2>2, <2>3, <2>4, <2>5 DEF PoolInv
<1>5. ASSUME NEW a \in Agents, UseLock(a) PROVE PoolInv'
  <2>1. PoolTypes'
    BY <1>5, <1>0 DEF UseLock, Goto, tables, PoolTypes, Labels, None
  <2>2. Holding'
    BY <1>5, <1>0, <1>n DEF UseLock, Goto, tables, PoolTypes, Holding, Listed, Labels
  <2>3. DrawnOnce'
    BY <1>5, <1>0 DEF UseLock, Goto, tables, PoolTypes, DrawnOnce, Listed, None, Labels
  <2>4. Agree'
    BY <1>5, <1>0, AgreeFrame DEF UseLock, Goto, tables, PoolTypes
  <2>5. PoolIsCapped'
    BY <1>5, <1>0 DEF UseLock, Goto, tables, PoolIsCapped
  <2>6. QED
    BY <2>1, <2>2, <2>3, <2>4, <2>5 DEF PoolInv
<1>6. ASSUME NEW a \in Agents, UseCall(a) PROVE PoolInv'
  <2>1. PoolTypes'
    BY <1>6, <1>0 DEF UseCall, Done, Goto, tables, PoolTypes, Labels, None
  <2>2. Holding'
    BY <1>6, <1>0, <1>n DEF UseCall, Done, Goto, tables, PoolTypes, Holding, Listed, Labels
  <2>3. DrawnOnce'
    BY <1>6, <1>0 DEF UseCall, Done, Goto, tables, PoolTypes, DrawnOnce, Listed, None, Labels
  <2>4. Agree'
    BY <1>6, <1>0, AgreeFrame DEF UseCall, Done, Goto, tables, PoolTypes
  <2>5. PoolIsCapped'
    BY <1>6, <1>0 DEF UseCall, Done, Goto, tables, PoolIsCapped
  <2>6. QED
    BY <2>1, <2>2, <2>3, <2>4, <2>5 DEF PoolInv
<1>6a. ASSUME NEW a \in Agents, LargeCalls(a) PROVE PoolInv'
  <2>1. PoolTypes'
    BY <1>6a, <1>0 DEF LargeCalls, Goto, locks, tables, PoolTypes, Labels, None
  <2>2. Holding'
    BY <1>6a, <1>0, <1>n DEF LargeCalls, Goto, locks, tables, PoolTypes, Holding, Listed, Labels
  <2>3. DrawnOnce'
    BY <1>6a, <1>0 DEF LargeCalls, Goto, locks, tables, PoolTypes, DrawnOnce, Listed, None, Labels
  <2>4. Agree'
    BY <1>6a, <1>0, AgreeFrame DEF LargeCalls, Goto, locks, tables, PoolTypes
  <2>5. PoolIsCapped'
    BY <1>6a, <1>0 DEF LargeCalls, Goto, locks, tables, PoolIsCapped
  <2>6. QED
    BY <2>1, <2>2, <2>3, <2>4, <2>5 DEF PoolInv
<1>6b. ASSUME NEW a \in Agents, LargeReadsPool(a) PROVE PoolInv'
  <2>1. PoolTypes'
    BY <1>6b, <1>0 DEF LargeReadsPool, Done, Goto, tables, PoolTypes, Labels, None
  <2>2. Holding'
    BY <1>6b, <1>0, <1>n DEF LargeReadsPool, Done, Goto, tables, PoolTypes, Holding, Listed, Labels
  <2>3. DrawnOnce'
    BY <1>6b, <1>0 DEF LargeReadsPool, Done, Goto, tables, PoolTypes, DrawnOnce, Listed, None, Labels
  <2>4. Agree'
    BY <1>6b, <1>0, AgreeFrame DEF LargeReadsPool, Done, Goto, tables, PoolTypes
  <2>5. PoolIsCapped'
    BY <1>6b, <1>0 DEF LargeReadsPool, Done, Goto, tables, PoolIsCapped
  <2>6. QED
    BY <2>1, <2>2, <2>3, <2>4, <2>5 DEF PoolInv
<1>6c. ASSUME NEW a \in Agents, LargeEnds(a) PROVE PoolInv'
  <2>1. PoolTypes'
    BY <1>6c, <1>0 DEF LargeEnds, Done, Goto, tables, PoolTypes, Labels, None
  <2>2. Holding'
    BY <1>6c, <1>0, <1>n DEF LargeEnds, Done, Goto, tables, PoolTypes, Holding, Listed, Labels
  <2>3. DrawnOnce'
    BY <1>6c, <1>0 DEF LargeEnds, Done, Goto, tables, PoolTypes, DrawnOnce, Listed, None, Labels
  <2>4. Agree'
    BY <1>6c, <1>0, AgreeFrame DEF LargeEnds, Done, Goto, tables, PoolTypes
  <2>5. PoolIsCapped'
    BY <1>6c, <1>0 DEF LargeEnds, Done, Goto, tables, PoolIsCapped
  <2>6. QED
    BY <2>1, <2>2, <2>3, <2>4, <2>5 DEF PoolInv
<1>7. ASSUME NEW a \in Agents, CloseLock(a) PROVE PoolInv'
  <2>1. PoolTypes'
    BY <1>7, <1>0 DEF CloseLock, Goto, tables, PoolTypes, Labels, None
  <2>2. Holding'
    BY <1>7, <1>0, <1>n DEF CloseLock, Goto, tables, PoolTypes, Holding, Listed, Labels
  <2>3. DrawnOnce'
    BY <1>7, <1>0 DEF CloseLock, Goto, tables, PoolTypes, DrawnOnce, Listed, None, Labels
  <2>4. Agree'
    BY <1>7, <1>0, AgreeFrame DEF CloseLock, Goto, tables, PoolTypes
  <2>5. PoolIsCapped'
    BY <1>7, <1>0 DEF CloseLock, Goto, tables, PoolIsCapped
  <2>6. QED
    BY <2>1, <2>2, <2>3, <2>4, <2>5 DEF PoolInv
<1>8. ASSUME NEW a \in Agents, CloseCall(a) PROVE PoolInv'
  <2>1. PoolTypes'
    BY <1>8, <1>0 DEF CloseCall, Goto, locks, tables, PoolTypes, Labels, None
  <2>2. Holding'
    BY <1>8, <1>0, <1>n DEF CloseCall, Goto, locks, tables, PoolTypes, Holding, Listed, Labels
  <2>3. DrawnOnce'
    BY <1>8, <1>0 DEF CloseCall, Goto, locks, tables, PoolTypes, DrawnOnce, Listed, None, Labels
  <2>4. Agree'
    BY <1>8, <1>0, AgreeFrame DEF CloseCall, Goto, locks, tables, PoolTypes
  <2>5. PoolIsCapped'
    BY <1>8, <1>0 DEF CloseCall, Goto, locks, tables, PoolIsCapped
  <2>6. QED
    BY <2>1, <2>2, <2>3, <2>4, <2>5 DEF PoolInv
<1>9. ASSUME NEW a \in Agents, CloseFails(a) PROVE PoolInv'
  <2>1. PoolTypes'
    BY <1>9, <1>0 DEF CloseFails, Done, Goto, tables, PoolTypes, Labels, None
  <2>2. Holding'
    BY <1>9, <1>0, <1>n DEF CloseFails, Done, Goto, tables, PoolTypes, Holding, Listed, Labels
  <2>3. DrawnOnce'
    BY <1>9, <1>0 DEF CloseFails, Done, Goto, tables, PoolTypes, DrawnOnce, Listed, None, Labels
  <2>4. Agree'
    BY <1>9, <1>0, AgreeFrame DEF CloseFails, Done, Goto, tables, PoolTypes
  <2>5. PoolIsCapped'
    BY <1>9, <1>0 DEF CloseFails, Done, Goto, tables, PoolIsCapped
  <2>6. QED
    BY <2>1, <2>2, <2>3, <2>4, <2>5 DEF PoolInv
<1>10. ASSUME NEW a \in Agents, CloseShutdown(a) PROVE PoolInv'
  <2>1. PoolTypes'
    BY <1>10, <1>0 DEF CloseShutdown, Goto, tables, PoolTypes, Labels, None
  <2>2. Holding'
    BY <1>10, <1>0, <1>n DEF CloseShutdown, Goto, tables, PoolTypes, Holding, Listed, Labels
  <2>3. DrawnOnce'
    BY <1>10, <1>0 DEF CloseShutdown, Goto, tables, PoolTypes, DrawnOnce, Listed, None, Labels
  <2>4. Agree'
    BY <1>10, <1>0, AgreeFrame DEF CloseShutdown, Goto, tables, PoolTypes
  <2>5. PoolIsCapped'
    BY <1>10, <1>0 DEF CloseShutdown, Goto, tables, PoolIsCapped
  <2>6. QED
    BY <2>1, <2>2, <2>3, <2>4, <2>5 DEF PoolInv
<1>11. ASSUME NEW a \in Agents, ListStart(a) PROVE PoolInv'
  <2>1. PoolTypes'
    BY <1>11, <1>0 DEF ListStart, LockPool, Goto, tables, PoolTypes, Labels, None
  <2>2. Holding'
    BY <1>11, <1>0, <1>n DEF ListStart, LockPool, Goto, tables, PoolTypes, Holding, Listed, Labels
  <2>3. DrawnOnce'
    BY <1>11, <1>0 DEF ListStart, LockPool, Goto, tables, PoolTypes, DrawnOnce, Listed, None, Labels
  <2>4. Agree'
    BY <1>11, <1>0, AgreeFrame DEF ListStart, LockPool, Goto, tables, PoolTypes
  <2>5. PoolIsCapped'
    BY <1>11, <1>0 DEF ListStart, LockPool, Goto, tables, PoolIsCapped
  <2>6. QED
    BY <2>1, <2>2, <2>3, <2>4, <2>5 DEF PoolInv
<1>12. ASSUME NEW a \in Agents, HealthStart(a) PROVE PoolInv'
  <2>1. PoolTypes'
    BY <1>12, <1>0 DEF HealthStart, LockPool, Goto, tables, PoolTypes, Labels, None
  <2>2. Holding'
    BY <1>12, <1>0, <1>n DEF HealthStart, LockPool, Goto, tables, PoolTypes, Holding, Listed, Labels
  <2>3. DrawnOnce'
    BY <1>12, <1>0 DEF HealthStart, LockPool, Goto, tables, PoolTypes, DrawnOnce, Listed, None, Labels
  <2>4. Agree'
    BY <1>12, <1>0, AgreeFrame DEF HealthStart, LockPool, Goto, tables, PoolTypes
  <2>5. PoolIsCapped'
    BY <1>12, <1>0 DEF HealthStart, LockPool, Goto, tables, PoolIsCapped
  <2>6. QED
    BY <2>1, <2>2, <2>3, <2>4, <2>5 DEF PoolInv
<1>13. ASSUME NEW a \in Agents, HealthLocksDbs(a) PROVE PoolInv'
  <2>1. PoolTypes'
    BY <1>13, <1>0 DEF HealthLocksDbs, Goto, tables, PoolTypes, Labels, None
  <2>2. Holding'
    BY <1>13, <1>0, <1>n DEF HealthLocksDbs, Goto, tables, PoolTypes, Holding, Listed, Labels
  <2>3. DrawnOnce'
    BY <1>13, <1>0 DEF HealthLocksDbs, Goto, tables, PoolTypes, DrawnOnce, Listed, None, Labels
  <2>4. Agree'
    BY <1>13, <1>0, AgreeFrame DEF HealthLocksDbs, Goto, tables, PoolTypes
  <2>5. PoolIsCapped'
    BY <1>13, <1>0 DEF HealthLocksDbs, Goto, tables, PoolIsCapped
  <2>6. QED
    BY <2>1, <2>2, <2>3, <2>4, <2>5 DEF PoolInv
<1>14. ASSUME NEW a \in Agents, SurveyNext(a) PROVE PoolInv'
  <2>1. PoolTypes'
    BY <1>14, <1>0 DEF SurveyNext, locks, tables, PoolTypes, Labels, None
  <2>2. Holding'
    BY <1>14, <1>0, <1>n DEF SurveyNext, locks, tables, PoolTypes, Holding, Listed, Labels
  <2>3. DrawnOnce'
    BY <1>14, <1>0 DEF SurveyNext, locks, tables, PoolTypes, DrawnOnce, Listed, None, Labels
  <2>4. Agree'
    BY <1>14, <1>0, AgreeFrame DEF SurveyNext, locks, tables, PoolTypes
  <2>5. PoolIsCapped'
    BY <1>14, <1>0 DEF SurveyNext, locks, tables, PoolIsCapped
  <2>6. QED
    BY <2>1, <2>2, <2>3, <2>4, <2>5 DEF PoolInv
<1>15. ASSUME NEW a \in Agents, SurveyEnd(a) PROVE PoolInv'
  <2>1. PoolTypes'
    BY <1>15, <1>0 DEF SurveyEnd, Done, Goto, tables, PoolTypes, Labels, None
  <2>2. Holding'
    BY <1>15, <1>0, <1>n DEF SurveyEnd, Done, Goto, tables, PoolTypes, Holding, Listed, Labels
  <2>3. DrawnOnce'
    BY <1>15, <1>0 DEF SurveyEnd, Done, Goto, tables, PoolTypes, DrawnOnce, Listed, None, Labels
  <2>4. Agree'
    BY <1>15, <1>0, AgreeFrame DEF SurveyEnd, Done, Goto, tables, PoolTypes
  <2>5. PoolIsCapped'
    BY <1>15, <1>0 DEF SurveyEnd, Done, Goto, tables, PoolIsCapped
  <2>6. QED
    BY <2>1, <2>2, <2>3, <2>4, <2>5 DEF PoolInv
<1>16. ASSUME NEW a \in Agents, RecoverNothing(a) PROVE PoolInv'
  <2>1. PoolTypes'
    BY <1>16, <1>0 DEF RecoverNothing, Done, Goto, tables, PoolTypes, Labels, None
  <2>2. Holding'
    BY <1>16, <1>0, <1>n DEF RecoverNothing, Done, Goto, tables, PoolTypes, Holding, Listed, Labels
  <2>3. DrawnOnce'
    BY <1>16, <1>0 DEF RecoverNothing, Done, Goto, tables, PoolTypes, DrawnOnce, Listed, None, Labels
  <2>4. Agree'
    BY <1>16, <1>0, AgreeFrame DEF RecoverNothing, Done, Goto, tables, PoolTypes
  <2>5. PoolIsCapped'
    BY <1>16, <1>0 DEF RecoverNothing, Done, Goto, tables, PoolIsCapped
  <2>6. QED
    BY <2>1, <2>2, <2>3, <2>4, <2>5 DEF PoolInv
<1>17. ASSUME NEW a \in Agents, RecoverBegins(a) PROVE PoolInv'
  <2>1. PoolTypes'
    BY <1>17, <1>0 DEF RecoverBegins, Goto, locks, tables, PoolTypes, Labels, None
  <2>2. Holding'
    BY <1>17, <1>0, <1>n DEF RecoverBegins, Goto, locks, tables, PoolTypes, Holding, Listed, Labels
  <2>3. DrawnOnce'
    BY <1>17, <1>0 DEF RecoverBegins, Goto, locks, tables, PoolTypes, DrawnOnce, Listed, None, Labels
  <2>4. Agree'
    BY <1>17, <1>0, AgreeFrame DEF RecoverBegins, Goto, locks, tables, PoolTypes
  <2>5. PoolIsCapped'
    BY <1>17, <1>0 DEF RecoverBegins, Goto, locks, tables, PoolIsCapped
  <2>6. QED
    BY <2>1, <2>2, <2>3, <2>4, <2>5 DEF PoolInv
<1>18. ASSUME NEW a \in Agents, RespawnFails(a) PROVE PoolInv'
  <2>1. PoolTypes'
    BY <1>18, <1>0 DEF RespawnFails, CountFailure, Done, Goto, tables, PoolTypes, Labels, None
  <2>2. Holding'
    BY <1>18, <1>0, <1>n DEF RespawnFails, CountFailure, Done, Goto, tables, PoolTypes, Holding, Listed, Labels
  <2>3. DrawnOnce'
    BY <1>18, <1>0 DEF RespawnFails, CountFailure, Done, Goto, tables, PoolTypes, DrawnOnce, Listed, None, Labels
  <2>4. Agree'
    BY <1>18, <1>0, AgreeFrame DEF RespawnFails, CountFailure, Done, Goto, tables, PoolTypes
  <2>5. PoolIsCapped'
    BY <1>18, <1>0 DEF RespawnFails, CountFailure, Done, Goto, tables, PoolIsCapped
  <2>6. QED
    BY <2>1, <2>2, <2>3, <2>4, <2>5 DEF PoolInv
<1>19. ASSUME NEW a \in Agents, ReopenFails(a) PROVE PoolInv'
  <2>1. PoolTypes'
    BY <1>19, <1>0 DEF ReopenFails, CountFailure, Done, Goto, tables, PoolTypes, Labels, None
  <2>2. Holding'
    BY <1>19, <1>0, <1>n, SMTT(60)
    DEF ReopenFails, CountFailure, Done, Goto, tables, PoolTypes, Holding, Listed, Labels
  <2>3. DrawnOnce'
    BY <1>19, <1>0 DEF ReopenFails, CountFailure, Done, Goto, tables, PoolTypes, DrawnOnce, Listed, None, Labels
  <2>4. Agree'
    BY <1>19, <1>0, AgreeFrame DEF ReopenFails, CountFailure, Done, Goto, tables, PoolTypes
  <2>5. PoolIsCapped'
    BY <1>19, <1>0 DEF ReopenFails, CountFailure, Done, Goto, tables, PoolIsCapped
  <2>6. QED
    BY <2>1, <2>2, <2>3, <2>4, <2>5 DEF PoolInv
<1>20. ASSUME NEW a \in Agents, NEW h \in Handles, NEW l \in {"lock", "closelock"}, Resolve(a, h, l) PROVE PoolInv'
  <2>1. PoolTypes'
    BY <1>20, <1>0 DEF Resolve, Goto, locks, tables, Handles, PoolTypes, Labels, None
  <2>2. Holding'
    BY <1>20, <1>0, <1>n DEF Resolve, Goto, locks, tables, Handles, PoolTypes, Holding, Listed, Labels
  <2>3. DrawnOnce'
    BY <1>20, <1>0 DEF Resolve, Goto, locks, tables, Handles, PoolTypes, DrawnOnce, Listed, None, Labels
  <2>4. Agree'
    BY <1>20, <1>0, AgreeFrame DEF Resolve, Goto, locks, tables, Handles, PoolTypes
  <2>5. PoolIsCapped'
    BY <1>20, <1>0 DEF Resolve, Goto, locks, tables, Handles, PoolIsCapped
  <2>6. QED
    BY <2>1, <2>2, <2>3, <2>4, <2>5 DEF PoolInv
<1>21. ASSUME NEW a \in Agents, NEW h \in Handles, RecoverStart(a, h) PROVE PoolInv'
  <2>1. PoolTypes'
    BY <1>21, <1>0 DEF RecoverStart, LockPool, Goto, tables, Handles, Sessions, PoolTypes, Labels, None
  <2>2. Holding'
    BY <1>21, <1>0, <1>n DEF RecoverStart, LockPool, Goto, tables, Handles, Sessions, PoolTypes, Holding, Listed, Labels
  <2>3. DrawnOnce'
    BY <1>21, <1>0 DEF RecoverStart, LockPool, Goto, tables, Handles, Sessions, PoolTypes, DrawnOnce, Listed, None, Labels
  <2>4. Agree'
    BY <1>21, <1>0, AgreeFrame DEF RecoverStart, LockPool, Goto, tables, Handles, Sessions, PoolTypes
  <2>5. PoolIsCapped'
    BY <1>21, <1>0 DEF RecoverStart, LockPool, Goto, tables, Handles, Sessions, PoolIsCapped
  <2>6. QED
    BY <2>1, <2>2, <2>3, <2>4, <2>5 DEF PoolInv
<1>22. ASSUME NEW a \in Agents, OpenSpawns(a) PROVE PoolInv'
  <2>1. PoolTypes'
    BY <1>22, <1>0 DEF OpenSpawns, NewSession, Goto, PoolTypes, Labels, None
  <2>2. Holding'
    BY <1>22, <1>0, <1>n DEF OpenSpawns, NewSession, Goto, PoolTypes, Holding, Listed, Labels
  <2>3. DrawnOnce'
    BY <1>22, <1>0 DEF OpenSpawns, NewSession, Goto, PoolTypes, DrawnOnce, Listed, None, Labels
  <2>4. Agree'
    BY <1>22, <1>0, AgreeFrame DEF OpenSpawns, NewSession, Goto, PoolTypes
  <2>5. PoolIsCapped'
    BY <1>22, <1>0 DEF OpenSpawns, NewSession, Goto, PoolIsCapped
  <2>6. QED
    BY <2>1, <2>2, <2>3, <2>4, <2>5 DEF PoolInv
<1>23. ASSUME NEW a \in Agents, Respawn(a) PROVE PoolInv'
  <2>1. PoolTypes'
    BY <1>23, <1>0 DEF Respawn, NewSession, Goto, PoolTypes, Labels, None
  <2>2. Holding'
    BY <1>23, <1>0, <1>n DEF Respawn, NewSession, Goto, PoolTypes, Holding, Listed, Labels
  <2>3. DrawnOnce'
    BY <1>23, <1>0 DEF Respawn, NewSession, Goto, PoolTypes, DrawnOnce, Listed, None, Labels
  <2>4. Agree'
    BY <1>23, <1>0, AgreeFrame DEF Respawn, NewSession, Goto, PoolTypes
  <2>5. PoolIsCapped'
    BY <1>23, <1>0 DEF Respawn, NewSession, Goto, PoolIsCapped
  <2>6. QED
    BY <2>1, <2>2, <2>3, <2>4, <2>5 DEF PoolInv
<1>24. ASSUME NEW a \in Agents, OpenSucceeds(a) PROVE PoolInv'
  <2> DEFINE f == fresh[a]
  <2>a. /\ pc[a] = "open" /\ nextHandle' = nextHandle + 1
        /\ slots' = slots \cup {<<nextHandle, f>>}
        /\ pc' = [pc EXCEPT ![a] = "list"] /\ hdl' = [hdl EXCEPT ![a] = nextHandle]
        /\ UNCHANGED <<poolLock, openDbs, nextSess, fresh>>
    BY <1>24 DEF OpenSucceeds, Goto
  <2>b. f \in Nat /\ nextHandle \in Nat
    BY <1>0 DEF PoolTypes
  <2>c. /\ \A h \in Nat : Listed(h)' <=> Listed(h) \/ h = nextHandle
        /\ ~Listed(nextHandle) /\ nextHandle \notin openDbs
    <3>1. ~Listed(nextHandle) /\ nextHandle \notin openDbs
      <4>1. /\ \A h, s \in Nat : <<h, s>> \in slots => h < nextHandle
            /\ \A h \in openDbs : h < nextHandle
        BY <1>0 DEF DrawnOnce
      <4>2. ~(nextHandle < nextHandle)
        BY <2>b
      <4>3. nextHandle \notin openDbs
        BY <4>1, <4>2
      <4>4. ~Listed(nextHandle)
        BY <2>b, <4>1, <4>2 DEF Listed
      <4>5. QED
        BY <4>3, <4>4
    <3>2. ASSUME NEW h \in Nat
          PROVE  Listed(h)' <=> Listed(h) \/ h = nextHandle
      BY <2>a, <2>b DEF Listed
    <3>3. QED
      BY <3>1, <3>2
  <2>d. \A b \in Agents : b # a => pc[b] \notin {"spawn", "open", "list", "info", "health", "survey",
                                                 "recover", "respawn", "reopen"}
    BY <1>0, <2>a DEF Holding
  <2>1. PoolTypes'
    <3>1. IsFiniteSet(slots')
      BY <1>0, <2>a, SlotSets DEF PoolTypes
    <3>2. QED
      BY <1>0, <2>a, <2>b, <3>1 DEF PoolTypes, Labels
  <2>2. Holding'
    BY <1>0, <2>a, <2>c, <2>d DEF Holding, PoolTypes
  <2>3. DrawnOnce'
    <3>1. \A h, s \in Nat : <<h, s>> \in slots' => h < nextHandle' /\ s < nextSess'
      BY <1>0, <2>a, <2>b DEF DrawnOnce, PoolTypes
    <3>2. \A h \in openDbs' : h < nextHandle'
      BY <1>0, <2>a, <2>b DEF DrawnOnce, PoolTypes
    <3>3. \A b \in Agents : hdl'[b] < nextHandle' /\ (pc'[b] = "unlist" => ~Listed(hdl[b])')
      <4>1. ASSUME NEW b \in Agents, b # a
            PROVE  /\ hdl'[b] = hdl[b] /\ pc'[b] = pc[b] /\ hdl[b] \in Nat /\ hdl[b] < nextHandle
                   /\ pc[b] = "unlist" => ~Listed(hdl[b])
        BY <1>0, <2>a, <4>1 DEF DrawnOnce, PoolTypes
      <4>2. pc'[a] # "unlist" /\ hdl'[a] < nextHandle'
        BY <1>0, <2>a, <2>b DEF PoolTypes
      <4>3. ASSUME NEW b \in Agents, b # a, pc'[b] = "unlist"
            PROVE  ~Listed(hdl[b])'
        <5>1. hdl[b] # nextHandle /\ ~Listed(hdl[b]) /\ hdl'[b] = hdl[b] /\ hdl[b] \in Nat
          BY <2>b, <4>1, <4>3
        <5>2. QED
          BY <2>a, <2>b, <2>c, <5>1 DEF Listed
      <4>4. QED
        BY <2>a, <2>b, <4>1, <4>2, <4>3
    <3>4. \A b \in Agents : pc'[b] \notin {"open", "reopen"}
      BY <1>0, <2>a, <2>d DEF PoolTypes
    <3>5. QED
      BY <3>1, <3>2, <3>3, <3>4 DEF DrawnOnce
  <2>4. Agree'
    <3>1. ASSUME NEW h \in Nat, Listed(h)', h \notin openDbs'
          PROVE  \E b \in Agents : pc'[b] = "list" /\ hdl'[b] = h
      <4>1. CASE h = nextHandle
        BY <1>0, <2>a, <4>1 DEF PoolTypes
      <4>2. CASE h # nextHandle
        BY <1>0, <2>a, <2>c, <2>d, <3>1, <4>2 DEF Agree
      <4>3. QED
        BY <4>1, <4>2
    <3>2. ASSUME NEW h \in Nat, h \in openDbs', ~Listed(h)'
          PROVE  \E b \in Agents : pc'[b] = "unlist" /\ hdl'[b] = h
      BY <1>0, <2>a, <2>c, <3>2 DEF Agree, PoolTypes
    <3>3. ASSUME NEW h \in Nat, NEW g \in Nat, NEW s \in Nat, NEW r \in Nat,
                 <<h, s>> \in slots', <<g, r>> \in slots', h = g \/ s = r
          PROVE  h = g /\ s = r
      <4>1. \A x \in Nat : <<x, f>> \notin slots /\ <<nextHandle, x>> \notin slots
        BY <1>0, <2>a, <2>b, <2>c DEF DrawnOnce, Listed
      <4>2. /\ <<h, s>> \in slots \/ (h = nextHandle /\ s = f)
            /\ <<g, r>> \in slots \/ (g = nextHandle /\ r = f)
        BY <2>a, <3>3
      <4>3. CASE <<h, s>> \in slots /\ <<g, r>> \in slots
        BY <1>0, <3>3, <4>3 DEF Agree
      <4>4. QED
        BY <3>3, <4>1, <4>2, <4>3
    <3>4. QED
      BY <3>1, <3>2, <3>3 DEF Agree
  <2>5. PoolIsCapped'
    <3>1. Cardinality(slots) < MaxWorkers
      BY <1>0, <2>a DEF Holding
    <3>2. Cardinality(slots) \in Nat /\ Cardinality(slots') <= Cardinality(slots) + 1
      BY <1>0, <2>a, SlotSets DEF PoolTypes
    <3>3. Cardinality(slots') \in Nat
      BY <2>1, FS_CardinalityType DEF PoolTypes
    <3>4. QED
      BY <1>n, <3>1, <3>2, <3>3 DEF PoolIsCapped
  <2>6. QED
    BY <2>1, <2>2, <2>3, <2>4, <2>5 DEF PoolInv
<1>25. ASSUME NEW a \in Agents, OpenLists(a) PROVE PoolInv'
  <2>a. /\ pc[a] = "list" /\ openDbs' = openDbs \cup {hdl[a]}
        /\ pc' = [pc EXCEPT ![a] = "info"]
        /\ UNCHANGED <<poolLock, slots, nextSess, nextHandle, hdl, fresh>>
    BY <1>25 DEF OpenLists, Goto, locks
  <2>b. /\ Listed(hdl[a]) /\ hdl[a] \in Nat
        /\ \A h : Listed(h)' <=> Listed(h)
    BY <1>0, <2>a DEF Holding, Listed, PoolTypes
  <2>1. PoolTypes'
    BY <1>0, <2>a, <2>b DEF PoolTypes, Labels
  <2>2. Holding'
    BY <1>0, <2>a, <2>b DEF Holding, PoolTypes
  <2>3. DrawnOnce'
    BY <1>0, <2>a, <2>b DEF DrawnOnce, PoolTypes
  <2>4. Agree'
    <3>1. ASSUME NEW h \in Nat, Listed(h)', h \notin openDbs'
          PROVE  \E b \in Agents : pc'[b] = "list" /\ hdl'[b] = h
      BY <1>0, <2>a, <2>b, <3>1 DEF Agree, PoolTypes
    <3>2. ASSUME NEW h \in Nat, h \in openDbs', ~Listed(h)'
          PROVE  \E b \in Agents : pc'[b] = "unlist" /\ hdl'[b] = h
      BY <1>0, <2>a, <2>b, <3>2 DEF Agree, PoolTypes
    <3>3. (\A h, g, s, r \in Nat :
             <<h, s>> \in slots /\ <<g, r>> \in slots /\ (h = g \/ s = r) => h = g /\ s = r)'
      BY <1>0, <2>a DEF Agree
    <3>4. QED
      BY <3>1, <3>2, <3>3, Zenon DEF Agree
  <2>5. PoolIsCapped'
    BY <1>0, <2>a DEF PoolIsCapped
  <2>6. QED
    BY <2>1, <2>2, <2>3, <2>4, <2>5 DEF PoolInv
<1>26. ASSUME NEW a \in Agents, CloseRetain(a) PROVE PoolInv'
  <2>a. /\ pc[a] = "retain" /\ poolLock = Nobody
        /\ slots' = {e \in slots : e[1] # hdl[a]}
        /\ pc' = [pc EXCEPT ![a] = "unlist"]
        /\ UNCHANGED <<poolLock, openDbs, nextSess, nextHandle, hdl, fresh>>
    BY <1>26 DEF CloseRetain, Goto, locks
  <2>b. \A h \in Nat : Listed(h)' <=> Listed(h) /\ h # hdl[a]
    BY <2>a DEF Listed
  <2>c. \A b \in Agents : pc[b] \notin {"spawn", "open", "list", "info", "health", "survey",
                                        "recover", "respawn", "reopen"}
    BY <1>0, <1>n, <2>a DEF Holding
  <2>d. hdl[a] \in Nat /\ slots' \in SUBSET slots
    BY <1>0, <2>a DEF PoolTypes
  <2>1. PoolTypes'
    BY <1>0, <2>a, <2>d, SlotSets DEF PoolTypes, Labels
  <2>2. Holding'
    BY <1>0, <2>a, <2>c DEF Holding, PoolTypes
  <2>3. DrawnOnce'
    BY <1>0, <2>a, <2>b, <2>c, <2>d DEF DrawnOnce, PoolTypes
  <2>4. Agree'
    <3>1. ASSUME NEW h \in Nat, Listed(h)', h \notin openDbs'
          PROVE  \E b \in Agents : pc'[b] = "list" /\ hdl'[b] = h
      BY <1>0, <2>a, <2>b, <2>c, <3>1 DEF Agree
    <3>2. ASSUME NEW h \in Nat, h \in openDbs', ~Listed(h)'
          PROVE  \E b \in Agents : pc'[b] = "unlist" /\ hdl'[b] = h
      <4>1. CASE h = hdl[a]
        BY <1>0, <2>a, <4>1 DEF PoolTypes
      <4>2. CASE h # hdl[a]
        BY <1>0, <2>a, <2>b, <3>2, <4>2 DEF Agree, PoolTypes
      <4>3. QED
        BY <4>1, <4>2
    <3>3. \A h, g, s, r \in Nat :
             <<h, s>> \in slots' /\ <<g, r>> \in slots' /\ (h = g \/ s = r) => h = g /\ s = r
      BY <1>0, <2>a DEF Agree
    <3>4. QED
      BY <3>1, <3>2, <3>3 DEF Agree
  <2>5. PoolIsCapped'
    <3>1. /\ Cardinality(slots) \in Nat /\ Cardinality(slots') \in Nat
          /\ Cardinality(slots') <= Cardinality(slots)
      BY <1>0, <2>d, SlotSets DEF PoolTypes
    <3>2. QED
      BY <1>0, <1>n, <3>1 DEF PoolIsCapped
  <2>6. QED
    BY <2>1, <2>2, <2>3, <2>4, <2>5 DEF PoolInv
<1>27. ASSUME NEW a \in Agents, CloseUnlists(a) PROVE PoolInv'
  <2>a. /\ pc[a] = "unlist" /\ openDbs' = openDbs \ {hdl[a]}
        /\ pc' = [pc EXCEPT ![a] = "idle"] /\ hdl' = [hdl EXCEPT ![a] = 0]
        /\ fresh' = [fresh EXCEPT ![a] = 0]
        /\ UNCHANGED <<poolLock, slots, nextSess, nextHandle>>
    BY <1>27 DEF CloseUnlists, Done, Goto, locks, None
  <2>b. /\ ~Listed(hdl[a]) /\ hdl[a] \in Nat
        /\ \A h : Listed(h)' <=> Listed(h)
    BY <1>0, <2>a DEF DrawnOnce, Listed, PoolTypes
  <2>1. PoolTypes'
    BY <1>0, <2>a, <2>b DEF PoolTypes, Labels
  <2>2. Holding'
    BY <1>0, <2>a, <2>b DEF Holding, PoolTypes
  <2>3. DrawnOnce'
    BY <1>0, <2>a, <2>b DEF DrawnOnce, PoolTypes
  <2>4. Agree'
    <3>1. ASSUME NEW h \in Nat, Listed(h)', h \notin openDbs'
          PROVE  \E b \in Agents : pc'[b] = "list" /\ hdl'[b] = h
      BY <1>0, <2>a, <2>b, <3>1 DEF Agree, PoolTypes
    <3>2. ASSUME NEW h \in Nat, h \in openDbs', ~Listed(h)'
          PROVE  \E b \in Agents : pc'[b] = "unlist" /\ hdl'[b] = h
      BY <1>0, <2>a, <2>b, <3>2 DEF Agree, PoolTypes
    <3>3. (\A h, g, s, r \in Nat :
             <<h, s>> \in slots /\ <<g, r>> \in slots /\ (h = g \/ s = r) => h = g /\ s = r)'
      BY <1>0, <2>a DEF Agree
    <3>4. QED
      BY <3>1, <3>2, <3>3, Zenon DEF Agree
  <2>5. PoolIsCapped'
    BY <1>0, <2>a DEF PoolIsCapped
  <2>6. QED
    BY <2>1, <2>2, <2>3, <2>4, <2>5 DEF PoolInv
<1>28. ASSUME NEW a \in Agents, Reopens(a) PROVE PoolInv'
  <2> DEFINE f == fresh[a]
  <2>a. /\ pc[a] = "reopen" /\ nextHandle' = nextHandle + 1
        /\ slots' = {e \in slots : e[1] # hdl[a]} \cup {<<hdl[a], f>>}
        /\ pc' = [pc EXCEPT ![a] = "idle"] /\ hdl' = [hdl EXCEPT ![a] = 0]
        /\ fresh' = [fresh EXCEPT ![a] = 0]
        /\ UNCHANGED <<openDbs, nextSess>>
    BY <1>28 DEF Reopens, Done, Goto, None
  <2>b. f \in Nat /\ hdl[a] \in Nat /\ nextHandle \in Nat
    BY <1>0 DEF PoolTypes
  <2>c. Listed(hdl[a]) /\ poolLock = a
    BY <1>0, <2>a DEF Holding
  <2>d. \A h \in Nat : Listed(h)' <=> Listed(h)
    BY <2>a, <2>b, <2>c DEF Listed
  <2>e. \A b \in Agents : b # a => pc[b] \notin {"spawn", "open", "list", "info", "health", "survey",
                                                 "recover", "respawn", "reopen"}
    BY <1>0, <2>c DEF Holding
  <2>f. PICK s \in Nat : <<hdl[a], s>> \in slots
    BY <2>c DEF Listed
  <2>g. {e \in slots : e[1] # hdl[a]} \in SUBSET (slots \ {<<hdl[a], s>>})
    BY <2>f
  <2>1. PoolTypes'
    <3>1. IsFiniteSet(slots')
      BY <1>0, <2>a, <2>f, <2>g, SlotSets DEF PoolTypes
    <3>2. QED
      BY <1>0, <2>a, <2>b, <3>1 DEF PoolTypes, Labels
  <2>2. Holding'
    BY <1>0, <2>a, <2>e DEF Holding, PoolTypes
  <2>3. DrawnOnce'
    <3>1. \A h, r \in Nat : <<h, r>> \in slots' => h < nextHandle' /\ r < nextSess'
      BY <1>0, <2>a, <2>b DEF DrawnOnce, PoolTypes
    <3>2. \A h \in openDbs' : h < nextHandle'
      BY <1>0, <2>a, <2>b DEF DrawnOnce, PoolTypes
    <3>3. \A b \in Agents : hdl'[b] < nextHandle' /\ (pc'[b] = "unlist" => ~Listed(hdl[b])')
      <4>1. ASSUME NEW b \in Agents, b # a
            PROVE  /\ hdl'[b] = hdl[b] /\ pc'[b] = pc[b] /\ hdl[b] \in Nat /\ hdl[b] < nextHandle
                   /\ pc[b] = "unlist" => ~Listed(hdl[b])
        BY <1>0, <2>a, <4>1 DEF DrawnOnce, PoolTypes
      <4>2. pc'[a] # "unlist" /\ hdl'[a] < nextHandle'
        BY <1>0, <2>a, <2>b DEF PoolTypes
      <4>3. ASSUME NEW b \in Agents, b # a, pc'[b] = "unlist"
            PROVE  ~Listed(hdl[b])'
        <5>1. hdl[b] # nextHandle /\ ~Listed(hdl[b]) /\ hdl'[b] = hdl[b] /\ hdl[b] \in Nat
          BY <2>b, <4>1, <4>3, SMTT(60)
        <5>2. QED
          BY <2>a, <2>b, <2>d, <5>1 DEF Listed
      <4>4. QED
        BY <2>a, <2>b, <4>1, <4>2, <4>3
    <3>4. \A b \in Agents : pc'[b] \notin {"open", "reopen"}
      BY <1>0, <2>a, <2>e DEF PoolTypes
    <3>5. QED
      BY <3>1, <3>2, <3>3, <3>4 DEF DrawnOnce
  <2>4. Agree'
    <3>1. ASSUME NEW h \in Nat, Listed(h)', h \notin openDbs'
          PROVE  \E b \in Agents : pc'[b] = "list" /\ hdl'[b] = h
      BY <1>0, <2>a, <2>d, <3>1 DEF Agree, PoolTypes
    <3>2. ASSUME NEW h \in Nat, h \in openDbs', ~Listed(h)'
          PROVE  \E b \in Agents : pc'[b] = "unlist" /\ hdl'[b] = h
      BY <1>0, <2>a, <2>d, <3>2 DEF Agree, PoolTypes
    <3>3. ASSUME NEW h \in Nat, NEW g \in Nat, NEW q \in Nat, NEW r \in Nat,
                 <<h, q>> \in slots', <<g, r>> \in slots', h = g \/ q = r
          PROVE  h = g /\ q = r
      <4>1. \A x \in Nat : <<x, f>> \notin slots
        BY <1>0, <2>a DEF DrawnOnce
      <4>2. QED
        BY <1>0, <2>a, <2>b, <3>3, <4>1 DEF Agree
    <3>4. QED
      BY <3>1, <3>2, <3>3 DEF Agree
  <2>5. PoolIsCapped'
    <3>1. Cardinality(slots) \in Nat /\ Cardinality(slots') <= Cardinality(slots)
      BY <1>0, <2>a, <2>f, <2>g, SlotSets DEF PoolTypes
    <3>2. Cardinality(slots') \in Nat
      BY <2>1, FS_CardinalityType DEF PoolTypes
    <3>3. QED
      BY <1>0, <1>n, <3>1, <3>2 DEF PoolIsCapped
  <2>6. QED
    BY <2>1, <2>2, <2>3, <2>4, <2>5 DEF PoolInv
<1>29. ASSUME NEW s \in Sessions, WorkerDies(s) PROVE PoolInv'
  <2>1. PoolTypes'
    BY <1>29, <1>0 DEF WorkerDies, locks, tables, agents, PoolTypes, Labels, None
  <2>2. Holding'
    BY <1>29, <1>0, <1>n DEF WorkerDies, locks, tables, agents, PoolTypes, Holding, Listed, Labels
  <2>3. DrawnOnce'
    BY <1>29, <1>0 DEF WorkerDies, locks, tables, agents, PoolTypes, DrawnOnce, Listed, None, Labels
  <2>4. Agree'
    BY <1>29, <1>0, AgreeFrame DEF WorkerDies, locks, tables, agents, PoolTypes
  <2>5. PoolIsCapped'
    BY <1>29, <1>0 DEF WorkerDies, locks, tables, agents, PoolIsCapped
  <2>6. QED
    BY <2>1, <2>2, <2>3, <2>4, <2>5 DEF PoolInv
<1>30. ASSUME NEW s \in Sessions, PumpReports(s) PROVE PoolInv'
  <2>1. PoolTypes'
    BY <1>30, <1>0 DEF PumpReports, locks, tables, agents, PoolTypes, Labels, None
  <2>2. Holding'
    BY <1>30, <1>0, <1>n DEF PumpReports, locks, tables, agents, PoolTypes, Holding, Listed, Labels
  <2>3. DrawnOnce'
    BY <1>30, <1>0 DEF PumpReports, locks, tables, agents, PoolTypes, DrawnOnce, Listed, None, Labels
  <2>4. Agree'
    BY <1>30, <1>0, AgreeFrame DEF PumpReports, locks, tables, agents, PoolTypes
  <2>5. PoolIsCapped'
    BY <1>30, <1>0 DEF PumpReports, locks, tables, agents, PoolIsCapped
  <2>6. QED
    BY <2>1, <2>2, <2>3, <2>4, <2>5 DEF PoolInv
<1>31. ASSUME NEW s \in Sessions, MarkCrashed(s) PROVE PoolInv'
  <2>1. PoolTypes'
    BY <1>31, <1>0 DEF MarkCrashed, locks, tables, agents, PoolTypes, Labels, None
  <2>2. Holding'
    BY <1>31, <1>0, <1>n DEF MarkCrashed, locks, tables, agents, PoolTypes, Holding, Listed, Labels
  <2>3. DrawnOnce'
    BY <1>31, <1>0 DEF MarkCrashed, locks, tables, agents, PoolTypes, DrawnOnce, Listed, None, Labels
  <2>4. Agree'
    BY <1>31, <1>0, AgreeFrame DEF MarkCrashed, locks, tables, agents, PoolTypes
  <2>5. PoolIsCapped'
    BY <1>31, <1>0 DEF MarkCrashed, locks, tables, agents, PoolIsCapped
  <2>6. QED
    BY <2>1, <2>2, <2>3, <2>4, <2>5 DEF PoolInv
<1>32. ASSUME UNCHANGED vars PROVE PoolInv'
  <2>1. PoolTypes'
    BY <1>32, <1>0 DEF vars, locks, tables, agents, PoolTypes, Labels, None
  <2>2. Holding'
    BY <1>32, <1>0, <1>n DEF vars, locks, tables, agents, PoolTypes, Holding, Listed, Labels
  <2>3. DrawnOnce'
    BY <1>32, <1>0 DEF vars, locks, tables, agents, PoolTypes, DrawnOnce, Listed, None, Labels
  <2>4. Agree'
    BY <1>32, <1>0, AgreeFrame DEF vars, locks, tables, agents, PoolTypes
  <2>5. PoolIsCapped'
    BY <1>32, <1>0 DEF vars, locks, tables, agents, PoolIsCapped
  <2>6. QED
    BY <2>1, <2>2, <2>3, <2>4, <2>5 DEF PoolInv
<1>33. QED
  BY <1>1, <1>2, <1>3, <1>4, <1>5, <1>6, <1>6a, <1>6b, <1>6c, <1>7, <1>8,
     <1>9, <1>10, <1>11,
     <1>12, <1>13, <1>14, <1>15, <1>16, <1>17, <1>18, <1>19, <1>20, <1>21, <1>22,
     <1>23, <1>24, <1>25, <1>26, <1>27, <1>28, <1>29, <1>30, <1>31, <1>32
  DEF Next, Start, Step, OpenStep, UseStep, CloseStep, SurveyStep, RecoverStep

\* max_workers caps the sessions the pool lists, whatever opens, closes and
\* recoveries interleave: a recovery swaps its session in and adds none.
THEOREM PoolStaysCapped == Spec => []PoolIsCapped
<1>1. PoolInv => PoolIsCapped
  BY DEF PoolInv
<1>2. QED
  BY PoolInitInv, PoolStep, <1>1, PTL DEF Spec

\* The pool and open_dbs name the same handles, each with one session, up to the
\* open or close that is between its two updates.
THEOREM TablesStayInAgreement == Spec => []TablesAgree
<1>1. PoolInv => TablesAgree
  <2> SUFFICES ASSUME PoolInv PROVE TablesAgree
    OBVIOUS
  <2>1. PoolTypes /\ Agree
    BY DEF PoolInv
  <2>2. \A h \in Handles : h \in Nat /\ (h \in {e[1] : e \in slots} <=> Listed(h))
    <3>1. \A e \in slots : e = <<e[1], e[2]>> /\ e[1] \in Nat /\ e[2] \in Nat
      BY <2>1 DEF PoolTypes
    <3>2. ASSUME NEW h \in Handles, NEW e \in slots, h = e[1]
          PROVE  Listed(h)
      BY <3>1, <3>2 DEF Listed
    <3>3. ASSUME NEW h \in Handles, Listed(h)
          PROVE  h \in {e[1] : e \in slots}
      <4>1. PICK s \in Nat : <<h, s>> \in slots
        BY <3>3 DEF Listed
      <4>2. <<h, s>>[1] = h
        OBVIOUS
      <4>3. QED
        BY <4>1, <4>2
    <3>4. Handles \subseteq Nat
      BY PoolAssumption DEF Handles
    <3>5. QED
      BY <3>2, <3>3, <3>4
  <2>3. \A h \in Handles :
          /\ h \in {e[1] : e \in slots} \ openDbs =>
               \E a \in Agents : pc[a] = "list" /\ hdl[a] = h
          /\ h \in openDbs \ {e[1] : e \in slots} =>
               \E a \in Agents : pc[a] = "unlist" /\ hdl[a] = h
    BY <2>1, <2>2 DEF Agree
  <2>4. ASSUME NEW e \in slots, NEW f \in slots, e[1] = f[1] \/ e[2] = f[2]
        PROVE  e = f
    <3>1. /\ e = <<e[1], e[2]>> /\ e[1] \in Nat /\ e[2] \in Nat
          /\ f = <<f[1], f[2]>> /\ f[1] \in Nat /\ f[2] \in Nat
      BY <2>1 DEF PoolTypes
    <3>2. QED
      BY <2>1, <2>4, <3>1 DEF Agree
  <2>5. QED
    BY <2>3, <2>4 DEF TablesAgree
<1>2. QED
  BY PoolInitInv, PoolStep, <1>1, PTL DEF Spec
=============================================================================
