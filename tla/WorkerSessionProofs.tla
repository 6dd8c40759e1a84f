------------------------ MODULE WorkerSessionProofs ------------------------
(***************************************************************************)
(* Proofs about WorkerSession, for every set of callers, every number of   *)
(* calls and every capacity of the channel and of the pipes.               *)
(***************************************************************************)
EXTENDS WorkerSession, TLAPS

\* What Append does to the contents of a queue.
LEMMA AppendContents ==
    ASSUME NEW S, NEW s \in Seq(S), NEW x \in S
    PROVE  /\ Append(s, x) \in Seq(S)
           /\ Range(Append(s, x)) = Range(s) \cup {x}
           /\ IsInjective(s) /\ x \notin Range(s) => IsInjective(Append(s, x))
<1> DEFINE t == Append(s, x)
<1>1. /\ t \in Seq(S) /\ Len(t) = Len(s) + 1 /\ Len(s) \in Nat
      /\ DOMAIN t = 1..(Len(s) + 1) /\ DOMAIN s = 1..Len(s)
      /\ \A k \in 1..Len(s) : t[k] = s[k]
      /\ t[Len(s) + 1] = x
  OBVIOUS
<1>2. Range(t) = Range(s) \cup {x}
  <2>1. ASSUME NEW y \in Range(t) PROVE y \in Range(s) \cup {x}
    <3>1. PICK k \in 1..(Len(s) + 1) : y = t[k]
      BY <1>1, <2>1 DEF Range
    <3>2. CASE k = Len(s) + 1
      BY <3>1, <3>2, <1>1
    <3>3. CASE k \in 1..Len(s)
      BY <3>1, <3>3, <1>1 DEF Range
    <3> QED BY <3>1, <3>2, <3>3, <1>1
  <2>2. ASSUME NEW y \in Range(s) PROVE y \in Range(t)
    BY <1>1, <2>2 DEF Range
  <2>3. x \in Range(t)
    <3>1. Len(s) + 1 \in DOMAIN t
      BY <1>1
    <3> QED BY <1>1, <3>1 DEF Range
  <2> QED BY <2>1, <2>2, <2>3
<1>3. ASSUME IsInjective(s), x \notin Range(s) PROVE IsInjective(t)
  <2> SUFFICES ASSUME NEW a \in DOMAIN t, NEW b \in DOMAIN t, t[a] = t[b] PROVE a = b
    BY DEF IsInjective
  <2>1. \A k \in 1..Len(s) : s[k] # x
    BY <1>1, <1>3 DEF Range
  <2>2. CASE a \in 1..Len(s) /\ b \in 1..Len(s)
    BY <2>2, <1>1, <1>3 DEF IsInjective
  <2>3. CASE a = Len(s) + 1 \/ b = Len(s) + 1
    BY <2>3, <2>1, <1>1
  <2> QED BY <2>2, <2>3, <1>1
<1> QED BY <1>1, <1>2, <1>3

\* What taking the head of a queue does to its contents.
LEMMA TailContents ==
    ASSUME NEW S, NEW s \in Seq(S), s # <<>>
    PROVE  /\ Head(s) \in S /\ Head(s) \in Range(s)
           /\ Tail(s) \in Seq(S)
           /\ Range(Tail(s)) \subseteq Range(s)
           /\ IsInjective(s) => /\ IsInjective(Tail(s))
                                /\ Range(Tail(s)) = Range(s) \ {Head(s)}
<1> DEFINE t == Tail(s)
<1>1. /\ t \in Seq(S) /\ Len(s) \in Nat \ {0} /\ Len(t) = Len(s) - 1
      /\ DOMAIN t = 1..(Len(s) - 1) /\ DOMAIN s = 1..Len(s)
      /\ \A k \in 1..(Len(s) - 1) : t[k] = s[k + 1]
      /\ Head(s) = s[1]
  OBVIOUS
<1>2. Head(s) \in S /\ Head(s) \in Range(s)
  <2>1. 1 \in DOMAIN s
    BY <1>1
  <2> QED BY <1>1, <2>1 DEF Range
<1>3. \A k \in DOMAIN t : k + 1 \in DOMAIN s /\ t[k] = s[k + 1]
  BY <1>1
<1>4. Range(t) \subseteq Range(s)
  BY <1>3 DEF Range
<1>5. ASSUME IsInjective(s) PROVE IsInjective(t) /\ Range(t) = Range(s) \ {Head(s)}
  <2>1. IsInjective(t)
    <3> SUFFICES ASSUME NEW a \in DOMAIN t, NEW b \in DOMAIN t, t[a] = t[b] PROVE a = b
      BY DEF IsInjective
    <3>1. a + 1 = b + 1
      BY <1>3, <1>5 DEF IsInjective
    <3> QED BY <3>1, <1>1
  <2>2. Head(s) \notin Range(t)
    <3> SUFFICES ASSUME NEW a \in DOMAIN t, t[a] = s[1] PROVE FALSE
      BY <1>1 DEF Range
    <3>1. a + 1 = 1
      BY <1>1, <1>3, <1>5 DEF IsInjective
    <3> QED BY <3>1, <1>1
  <2>3. ASSUME NEW y \in Range(s), y # Head(s) PROVE y \in Range(t)
    <3>1. PICK k \in DOMAIN s : y = s[k]
      BY <2>3 DEF Range
    <3>2. k - 1 \in DOMAIN t /\ t[k - 1] = s[k]
      BY <3>1, <2>3, <1>1
    <3> QED BY <3>1, <3>2 DEF Range
  <2> QED BY <2>1, <2>2, <2>3, <1>4
<1> QED BY <1>1, <1>2, <1>4, <1>5

\* Tearing a frame leaves its ids alone.
LEMMA TornContents ==
    ASSUME NEW s \in Seq(Frame), NEW k
    PROVE  LET t == [s EXCEPT ![k].torn = TRUE]
           IN  /\ t \in Seq(Frame)
               /\ \A f \in Range(t) : \E g \in Range(s) : f.id = g.id /\ f.of = g.of
<1> DEFINE t == [s EXCEPT ![k].torn = TRUE]
<1>1. DOMAIN t = DOMAIN s /\ DOMAIN s = 1..Len(s) /\ Len(s) \in Nat
  OBVIOUS
<1>2. ASSUME NEW j \in DOMAIN s
      PROVE  s[j] \in Frame /\ t[j] \in Frame /\ t[j].id = s[j].id /\ t[j].of = s[j].of
  <2>1. s[j] \in Frame
    BY <1>1
  <2>2. CASE j = k
    <3>1. t[j] = [s[j] EXCEPT !.torn = TRUE]
      BY <2>2
    <3> QED BY <2>1, <3>1 DEF Frame
  <2>3. CASE j # k
    <3>1. t[j] = s[j]
      BY <2>3
    <3> QED BY <2>1, <3>1
  <2> QED BY <2>2, <2>3
<1>3. t \in Seq(Frame)
  <2>1. t = [j \in 1..Len(s) |-> t[j]]
    BY <1>1
  <2>2. \A j \in 1..Len(s) : t[j] \in Frame
    BY <1>1, <1>2
  <2> HIDE DEF t
  <2>3. t \in [1..Len(s) -> Frame]
    BY <2>1, <2>2
  <2> QED BY <2>3, <1>1
<1> HIDE DEF t
<1>4. ASSUME NEW f \in Range(t) PROVE \E g \in Range(s) : f.id = g.id /\ f.of = g.of
  BY <1>1, <1>2, <1>4 DEF Range
<1> QED BY <1>3, <1>4 DEF t

\* A session that spawn_for has just built satisfies the invariant.
LEMMA InitIInv == Init => IInv
<1> SUFFICES ASSUME Init PROVE IInv
  OBVIOUS
<1> USE SessionAssumption
<1>1. Range(<<>>) = {} /\ IsInjective(<<>>)
  BY DEF Range, IsInjective
<1>2. TypeOK
  <2>1. /\ pc \in [Callers -> {"idle", "locked", "sending", "waiting"}]
        /\ call \in [Callers -> 0..MaxCalls] /\ nextId \in 1..(MaxCalls + 1)
    BY DEF Init
  <2>2. chan \in Seq(Ids) /\ stdin \in Seq(Ids) /\ stdout \in Seq(Frame)
    BY DEF Init
  <2>3. /\ oneshot \in [Ids -> {"open", "answer", "failed", "dropped"}]
        /\ answerOf \in [Ids -> 0..MaxCalls]
        /\ result \in [Ids -> Results] /\ execs \in [Ids -> Nat]
    BY DEF Init, Results
  <2>4. pending \in SUBSET Ids /\ cur \in 0..MaxCalls
    BY DEF Init
  <2>5. tx \in BOOLEAN /\ half \in BOOLEAN /\ lock \in Callers \cup {Nobody}
    BY DEF Init
  <2> QED BY <2>1, <2>2, <2>3, <2>4, <2>5 DEF Init, TypeOK
<1>3. OnePlace
  BY <1>1 DEF Init, OnePlace
<1>4. ExecutionAgrees
  BY <1>1 DEF Init, ExecutionAgrees, Agrees, Travelling, Fresh
<1>5. CallersAgree /\ NoLostReply
  BY DEF Init, CallersAgree, NoLostReply
<1> QED BY <1>2, <1>3, <1>4, <1>5 DEF IInv

\* Every action of the callers, of pump_task, of worker_main and of the monitor
\* preserves the invariant.
LEMMA StepIInv == IInv /\ [Next]_vars => IInv'
<1> SUFFICES ASSUME IInv, [Next]_vars PROVE IInv'
  OBVIOUS
<1> USE SessionAssumption
<1> USE DEF IInv
<1> USE DEF vars, sessionVars, callerVars, replyVars, pumpVars, pipeVars, workerVars, crashVars
<1>0. nextId \in Nat /\ \A i \in Ids : i \in Nat
  BY DEF TypeOK, Ids
<1>1. ASSUME NEW c \in Callers, LockSession(c) PROVE IInv'
  <2>1. TypeOK'
    BY <1>1 DEF LockSession, TypeOK
  <2>2. OnePlace'
    BY <1>1 DEF LockSession, OnePlace, Fresh, Travelling
  <2>3. ExecutionAgrees'
    <3>1. (\A f \in Range(stdout) : f.id = f.of /\ execs[f.of] = 1)'
      BY <1>1 DEF LockSession, ExecutionAgrees, TypeOK
    <3>2. ASSUME NEW i \in Ids PROVE Agrees(i)'
      <4>1. Agrees(i) /\ i \in Nat
        BY <1>0 DEF ExecutionAgrees
      <4> QED BY <1>0, <1>1, <4>1 DEF LockSession, Agrees, Travelling, Fresh, TypeOK, OnePlace
    <3> QED BY <3>1, <3>2 DEF ExecutionAgrees
  <2>4. CallersAgree'
    BY <1>0, <1>1 DEF LockSession, CallersAgree, Travelling, Fresh, TypeOK
  <2>5. NoLostReply'
    BY <1>1 DEF LockSession, CallersAgree, NoLostReply, TypeOK
  <2> QED BY <2>1, <2>2, <2>3, <2>4, <2>5
<1>2. ASSUME NEW c \in Callers, UnlockSession(c) PROVE IInv'
  <2>1. TypeOK'
    BY <1>2 DEF UnlockSession, TypeOK
  <2>2. OnePlace'
    BY <1>2 DEF UnlockSession, OnePlace, Fresh, Travelling
  <2>3. ExecutionAgrees'
    <3>1. (\A f \in Range(stdout) : f.id = f.of /\ execs[f.of] = 1)'
      BY <1>2 DEF UnlockSession, ExecutionAgrees, TypeOK
    <3>2. ASSUME NEW i \in Ids PROVE Agrees(i)'
      <4>1. Agrees(i) /\ i \in Nat
        BY <1>0 DEF ExecutionAgrees
      <4> QED BY <1>0, <1>2, <4>1 DEF UnlockSession, Agrees, Travelling, Fresh, TypeOK, OnePlace
    <3> QED BY <3>1, <3>2 DEF ExecutionAgrees
  <2>4. CallersAgree'
    BY <1>0, <1>2 DEF UnlockSession, CallersAgree, Travelling, Fresh, TypeOK
  <2>5. NoLostReply'
    BY <1>2 DEF UnlockSession, CallersAgree, NoLostReply, TypeOK
  <2> QED BY <2>1, <2>2, <2>3, <2>4, <2>5
<1>3. ASSUME NEW c \in Callers, StartCall(c) PROVE IInv'
  <2>a. nextId \in Ids /\ nextId + 1 \in 1..(MaxCalls + 1) /\ Fresh(nextId)
    BY <1>3 DEF StartCall, Ids, TypeOK, ExecutionAgrees, Agrees
  <2>1. TypeOK'
    <3>1. call' \in [Callers -> 0..MaxCalls]
      BY <1>3, <2>a DEF StartCall, TypeOK, Results, Ids
    <3>2. pc' \in [Callers -> {"idle", "locked", "sending", "waiting"}]
      BY <1>3, <2>a DEF StartCall, TypeOK, Results
    <3>3. nextId' \in 1..(MaxCalls + 1)
      BY <1>3, <2>a DEF StartCall
    <3> QED BY SMTT(30), <1>3, <3>1, <3>2, <3>3 DEF StartCall, TypeOK
  <2>2. OnePlace'
    BY <1>3, <2>a DEF StartCall, OnePlace, Fresh, Travelling
  <2>3. ExecutionAgrees'
    <3>1. (\A f \in Range(stdout) : f.id = f.of /\ execs[f.of] = 1)'
      BY <1>3, <2>a DEF StartCall, ExecutionAgrees, TypeOK
    <3>2. ASSUME NEW i \in Ids PROVE Agrees(i)'
      <4>1. Agrees(i) /\ i \in Nat
        BY <1>0 DEF ExecutionAgrees
      <4> QED BY <1>0, <1>3, <2>a, <4>1, SMTT(60) DEF StartCall, Agrees, Travelling, Fresh, TypeOK, OnePlace
    <3> QED BY <3>1, <3>2 DEF ExecutionAgrees
  <2>4. CallersAgree'
    BY <1>0, <1>3, <2>a DEF StartCall, CallersAgree, Travelling, Fresh, TypeOK
  <2>5. NoLostReply'
    BY <1>3, <2>a DEF StartCall, CallersAgree, NoLostReply, TypeOK
  <2> QED BY <2>1, <2>2, <2>3, <2>4, <2>5
<1>4. ASSUME NEW c \in Callers, Enqueue(c) PROVE IInv'
  <2>a. call[c] \in Ids /\ call[c] < nextId /\ Fresh(call[c])
    BY <1>4 DEF Enqueue, CallersAgree
  <2>b. /\ chan' \in Seq(Ids) /\ IsInjective(chan')
        /\ Range(chan') = Range(chan) \cup {call[c]}
    BY <1>4, <2>a, AppendContents DEF Enqueue, TypeOK, OnePlace, Fresh, Travelling
  <2>1. TypeOK'
    <3>1. pc' \in [Callers -> {"idle", "locked", "sending", "waiting"}]
      BY <1>4, <2>a, <2>b DEF Enqueue, TypeOK, Results
    <3> QED BY <1>4, <2>a, <2>b, <3>1, SMTT(60) DEF Enqueue, TypeOK
  <2>2. OnePlace'
    BY <1>4, <2>a, <2>b DEF Enqueue, OnePlace, Fresh, Travelling
  <2>3. ExecutionAgrees'
    <3>1. (\A f \in Range(stdout) : f.id = f.of /\ execs[f.of] = 1)'
      BY <1>4, <2>a, <2>b DEF Enqueue, ExecutionAgrees, TypeOK
    <3>2. ASSUME NEW i \in Ids PROVE Agrees(i)'
      <4>1. Agrees(i) /\ i \in Nat
        BY <1>0 DEF ExecutionAgrees
      <4> QED BY <1>0, <1>4, <2>a, <2>b, <4>1, SMTT(60) DEF Enqueue, Agrees, Travelling, Fresh, TypeOK, OnePlace
    <3> QED BY <3>1, <3>2 DEF ExecutionAgrees
  <2>4. CallersAgree'
    BY <1>0, <1>4, <2>a, <2>b DEF Enqueue, CallersAgree, Travelling, Fresh, TypeOK
  <2>5. NoLostReply'
    BY <1>4, <2>a, <2>b DEF Enqueue, CallersAgree, NoLostReply, TypeOK
  <2> QED BY <2>1, <2>2, <2>3, <2>4, <2>5
<1>5. ASSUME NEW c \in Callers, SendFails(c) PROVE IInv'
  <2>a. call[c] \in Ids /\ call[c] < nextId /\ Fresh(call[c])
    BY <1>5 DEF SendFails, CallersAgree
  <2>1. TypeOK'
    <3>1. result' \in [Ids -> Results]
      BY <1>5, <2>a DEF SendFails, Return, TypeOK, Results
    <3>2. pc' \in [Callers -> {"idle", "locked", "sending", "waiting"}]
      BY <1>5, <2>a DEF SendFails, Return, TypeOK, Results
    <3>3. call' \in [Callers -> 0..MaxCalls]
      BY <1>5, <2>a DEF SendFails, Return, TypeOK, Results, Ids
    <3> QED BY <1>5, <2>a, <3>1, <3>2, <3>3 DEF SendFails, Return, TypeOK
  <2>2. OnePlace'
    BY <1>5, <2>a DEF SendFails, Return, OnePlace, Fresh, Travelling
  <2>3. ExecutionAgrees'
    <3>1. (\A f \in Range(stdout) : f.id = f.of /\ execs[f.of] = 1)'
      BY <1>5, <2>a DEF SendFails, Return, ExecutionAgrees, TypeOK
    <3>2. ASSUME NEW i \in Ids PROVE Agrees(i)'
      <4>1. Agrees(i) /\ i \in Nat
        BY <1>0 DEF ExecutionAgrees
      <4> QED BY <1>0, <1>5, <2>a, <4>1, SMTT(60) DEF SendFails, Return, Agrees, Travelling, Fresh, TypeOK, OnePlace
    <3> QED BY <3>1, <3>2 DEF ExecutionAgrees
  <2>4. CallersAgree'
    BY <1>0, <1>5, <2>a DEF SendFails, Return, CallersAgree, Travelling, Fresh, TypeOK
  <2>5. NoLostReply'
    BY <1>5, <2>a DEF SendFails, Return, CallersAgree, NoLostReply, TypeOK
  <2> QED BY <2>1, <2>2, <2>3, <2>4, <2>5
<1>6. ASSUME NEW c \in Callers, Receive(c) PROVE IInv'
  <2>a. call[c] \in Ids /\ call[c] < nextId /\ result[call[c]] = "none"
    BY <1>6 DEF Receive, CallersAgree
  <2>1. TypeOK'
    <3>1. result' \in [Ids -> Results]
      BY <1>6, <2>a DEF Receive, Return, TypeOK, Results
    <3>2. pc' \in [Callers -> {"idle", "locked", "sending", "waiting"}]
      BY <1>6, <2>a DEF Receive, Return, TypeOK, Results
    <3>3. call' \in [Callers -> 0..MaxCalls]
      BY <1>6, <2>a DEF Receive, Return, TypeOK, Results, Ids
    <3> QED BY <1>6, <2>a, <3>1, <3>2, <3>3 DEF Receive, Return, TypeOK
  <2>2. OnePlace'
    BY <1>6, <2>a DEF Receive, Return, OnePlace, Fresh, Travelling
  <2>3. ExecutionAgrees'
    <3>1. (\A f \in Range(stdout) : f.id = f.of /\ execs[f.of] = 1)'
      BY <1>6, <2>a DEF Receive, Return, ExecutionAgrees, TypeOK
    <3>2. ASSUME NEW i \in Ids PROVE Agrees(i)'
      <4>1. Agrees(i) /\ i \in Nat
        BY <1>0 DEF ExecutionAgrees
      <4> QED BY <1>0, <1>6, <2>a, <4>1 DEF Receive, Return, Agrees, Travelling, Fresh, TypeOK, OnePlace
    <3> QED BY <3>1, <3>2 DEF ExecutionAgrees
  <2>4. CallersAgree'
    BY <1>0, <1>6, <2>a, SMTT(60) DEF Receive, Return, CallersAgree, Travelling, Fresh, TypeOK
  <2>5. NoLostReply'
    BY <1>6, <2>a DEF Receive, Return, CallersAgree, NoLostReply, TypeOK
  <2> QED BY <2>1, <2>2, <2>3, <2>4, <2>5
<1>7. ASSUME NEW c \in Callers, TimeOut(c) PROVE IInv'
  <2>a. call[c] \in Ids /\ call[c] < nextId /\ result[call[c]] = "none"
    BY <1>7 DEF TimeOut, CallersAgree
  <2>1. TypeOK'
    <3>1. result' \in [Ids -> Results]
      BY <1>7, <2>a DEF TimeOut, Return, TypeOK, Results
    <3>2. pc' \in [Callers -> {"idle", "locked", "sending", "waiting"}]
      BY <1>7, <2>a DEF TimeOut, Return, TypeOK, Results
    <3>3. call' \in [Callers -> 0..MaxCalls]
      BY <1>7, <2>a DEF TimeOut, Return, TypeOK, Results, Ids
    <3> QED BY <1>7, <2>a, <3>1, <3>2, <3>3 DEF TimeOut, Return, TypeOK
  <2>2. OnePlace'
    BY <1>7, <2>a DEF TimeOut, Return, OnePlace, Fresh, Travelling
  <2>3. ExecutionAgrees'
    <3>1. (\A f \in Range(stdout) : f.id = f.of /\ execs[f.of] = 1)'
      BY <1>7, <2>a DEF TimeOut, Return, ExecutionAgrees, TypeOK
    <3>2. ASSUME NEW i \in Ids PROVE Agrees(i)'
      <4>1. Agrees(i) /\ i \in Nat
        BY <1>0 DEF ExecutionAgrees
      <4> QED BY <1>0, <1>7, <2>a, <4>1 DEF TimeOut, Return, Agrees, Travelling, Fresh, TypeOK, OnePlace
    <3> QED BY <3>1, <3>2 DEF ExecutionAgrees
  <2>4. CallersAgree'
    BY <1>0, <1>7, <2>a DEF TimeOut, Return, CallersAgree, Travelling, Fresh, TypeOK
  <2>5. NoLostReply'
    BY <1>7, <2>a DEF TimeOut, Return, CallersAgree, NoLostReply, TypeOK
  <2> QED BY <2>1, <2>2, <2>3, <2>4, <2>5
<1>8. ASSUME PumpTake PROVE IInv'
  <2>a. /\ Head(chan) \in Ids /\ Head(chan) \in Range(chan)
        /\ chan' \in Seq(Ids) /\ IsInjective(chan')
        /\ Range(chan') = Range(chan) \ {Head(chan)}
    BY <1>8, TailContents DEF PumpTake, TypeOK, OnePlace
  <2>b. /\ stdin' \in Seq(Ids) /\ IsInjective(stdin')
        /\ Range(stdin') = Range(stdin) \cup {Head(chan)}
    <3>1. Head(chan) \notin Range(stdin)
      BY <2>a DEF OnePlace
    <3>2. stdin \in Seq(Ids) /\ IsInjective(stdin) /\ stdin' = Append(stdin, Head(chan))
      BY <1>8 DEF PumpTake, TypeOK, OnePlace
    <3> QED BY <2>a, <3>1, <3>2, AppendContents
  <2>c. /\ stdout' \in Seq(Frame)
        /\ \A f \in Range(stdout') : \E g \in Range(stdout) : f.id = g.id /\ f.of = g.of
    BY <1>8, TornContents DEF PumpTake, TypeOK
  <2>d. pending' = pending \cup {Head(chan)} /\ pump' = "writing" /\ half' = FALSE
    BY <1>8 DEF PumpTake
  <2>e. UNCHANGED <<sessionVars, callerVars, replyVars, workerVars, crashVars>>
    BY <1>8 DEF PumpTake
  <2>1. TypeOK'
    BY <2>a, <2>b, <2>c, <2>d, <2>e DEF TypeOK
  <2>2. OnePlace'
    BY <2>a, <2>b, <2>c, <2>d, <2>e DEF OnePlace, Fresh, Travelling
  <2>3. ExecutionAgrees'
    <3>1. (\A f \in Range(stdout) : f.id = f.of /\ execs[f.of] = 1)'
      <4>1. \A g \in Range(stdout) : g.id = g.of /\ execs[g.of] = 1
        BY DEF ExecutionAgrees
      <4>2. execs' = execs
        BY <2>e
      <4>3. ASSUME NEW f \in Range(stdout') PROVE f.id = f.of /\ execs[f.of] = 1
        <5>1. PICK g \in Range(stdout) : f.id = g.id /\ f.of = g.of
          BY <2>c
        <5>2. g.id = g.of /\ execs[g.of] = 1
          BY <4>1
        <5> QED BY <5>1, <5>2
      <4> QED BY <4>2, <4>3, Zenon
    <3>2. ASSUME NEW i \in Ids PROVE Agrees(i)'
      <4>1. Agrees(i) /\ i \in Nat
        BY <1>0 DEF ExecutionAgrees
      <4> QED BY <1>0, <2>a, <2>b, <2>c, <2>d, <2>e, <4>1 DEF Agrees, Travelling, Fresh, TypeOK, OnePlace
    <3> QED BY <3>1, <3>2 DEF ExecutionAgrees
  <2>4. CallersAgree'
    BY <1>0, <2>a, <2>b, <2>c, <2>d, <2>e, SMTT(60) DEF CallersAgree, Travelling, Fresh, TypeOK
  <2>5. NoLostReply'
    BY <2>a, <2>b, <2>c, <2>d, <2>e DEF CallersAgree, NoLostReply, TypeOK
  <2> QED BY <2>1, <2>2, <2>3, <2>4, <2>5
<1>9. ASSUME PumpWrote PROVE IInv'
  <2>1. TypeOK'
    BY <1>9 DEF PumpWrote, TypeOK
  <2>2. OnePlace'
    BY <1>9 DEF PumpWrote, OnePlace, Fresh, Travelling
  <2>3. ExecutionAgrees'
    <3>1. (\A f \in Range(stdout) : f.id = f.of /\ execs[f.of] = 1)'
      BY <1>9 DEF PumpWrote, ExecutionAgrees, TypeOK
    <3>2. ASSUME NEW i \in Ids PROVE Agrees(i)'
      <4>1. Agrees(i) /\ i \in Nat
        BY <1>0 DEF ExecutionAgrees
      <4> QED BY <1>0, <1>9, <4>1 DEF PumpWrote, Agrees, Travelling, Fresh, TypeOK, OnePlace
    <3> QED BY <3>1, <3>2 DEF ExecutionAgrees
  <2>4. CallersAgree'
    BY <1>0, <1>9 DEF PumpWrote, CallersAgree, Travelling, Fresh, TypeOK
  <2>5. NoLostReply'
    BY <1>9 DEF PumpWrote, CallersAgree, NoLostReply, TypeOK
  <2> QED BY <2>1, <2>2, <2>3, <2>4, <2>5
<1>10. ASSUME PumpWriteFails PROVE IInv'
  <2>1. TypeOK'
    BY <1>10 DEF PumpWriteFails, FailAll, TypeOK
  <2>2. OnePlace'
    BY <1>10 DEF PumpWriteFails, FailAll, OnePlace, Fresh, Travelling
  <2>3. ExecutionAgrees'
    <3>1. (\A f \in Range(stdout) : f.id = f.of /\ execs[f.of] = 1)'
      BY <1>10 DEF PumpWriteFails, FailAll, ExecutionAgrees, TypeOK
    <3>2. ASSUME NEW i \in Ids PROVE Agrees(i)'
      <4>1. Agrees(i) /\ i \in Nat
        BY <1>0 DEF ExecutionAgrees
      <4> QED BY <1>0, <1>10, <4>1 DEF PumpWriteFails, FailAll, Agrees, Travelling, Fresh, TypeOK, OnePlace
    <3> QED BY <3>1, <3>2 DEF ExecutionAgrees
  <2>4. CallersAgree'
    BY <1>0, <1>10 DEF PumpWriteFails, FailAll, CallersAgree, Travelling, Fresh, TypeOK
  <2>5. NoLostReply'
    BY <1>10 DEF PumpWriteFails, FailAll, CallersAgree, NoLostReply, TypeOK
  <2> QED BY <2>1, <2>2, <2>3, <2>4, <2>5
<1>11. ASSUME PumpReadsPart PROVE IInv'
  <2>1. TypeOK'
    BY <1>11 DEF PumpReadsPart, TypeOK
  <2>2. OnePlace'
    BY <1>11 DEF PumpReadsPart, OnePlace, Fresh, Travelling
  <2>3. ExecutionAgrees'
    <3>1. (\A f \in Range(stdout) : f.id = f.of /\ execs[f.of] = 1)'
      BY <1>11 DEF PumpReadsPart, ExecutionAgrees, TypeOK
    <3>2. ASSUME NEW i \in Ids PROVE Agrees(i)'
      <4>1. Agrees(i) /\ i \in Nat
        BY <1>0 DEF ExecutionAgrees
      <4> QED BY <1>0, <1>11, <4>1 DEF PumpReadsPart, Agrees, Travelling, Fresh, TypeOK, OnePlace
    <3> QED BY <3>1, <3>2 DEF ExecutionAgrees
  <2>4. CallersAgree'
    BY <1>0, <1>11 DEF PumpReadsPart, CallersAgree, Travelling, Fresh, TypeOK
  <2>5. NoLostReply'
    BY <1>11 DEF PumpReadsPart, CallersAgree, NoLostReply, TypeOK
  <2> QED BY <2>1, <2>2, <2>3, <2>4, <2>5
<1>12. ASSUME PumpRead PROVE IInv'
  <2>a. /\ Head(stdout) \in Frame /\ Head(stdout) \in Range(stdout)
        /\ stdout' \in Seq(Frame) /\ Range(stdout') \subseteq Range(stdout)
    BY <1>12, TailContents DEF PumpRead, TypeOK
  <2>b. /\ Head(stdout).id \in Ids /\ Head(stdout).of = Head(stdout).id
        /\ execs[Head(stdout).id] = 1
    BY <2>a DEF Frame, ExecutionAgrees
  <2>1. TypeOK'
    <3>1. oneshot' \in [Ids -> {"open", "answer", "failed", "dropped"}]
      BY <1>12, <2>a, <2>b DEF PumpRead, TypeOK, Results
    <3>2. answerOf' \in [Ids -> 0..MaxCalls]
      <4>1. Head(stdout).of \in 0..MaxCalls
        BY <2>b DEF Ids
      <4> QED BY <1>12, <2>b, <4>1 DEF PumpRead, TypeOK
    <3>3. pending' \in SUBSET Ids /\ half' \in BOOLEAN
      BY <1>12 DEF PumpRead, TypeOK
    <3> QED BY <1>12, <2>a, <3>1, <3>2, <3>3 DEF PumpRead, TypeOK
  <2>2. OnePlace'
    BY <1>12, <2>a, <2>b DEF PumpRead, OnePlace, Fresh, Travelling
  <2>3. ExecutionAgrees'
    <3>1. (\A f \in Range(stdout) : f.id = f.of /\ execs[f.of] = 1)'
      BY <1>12, <2>a, <2>b DEF PumpRead, ExecutionAgrees, TypeOK
    <3>2. ASSUME NEW i \in Ids PROVE Agrees(i)'
      <4>1. Agrees(i) /\ i \in Nat
        BY <1>0 DEF ExecutionAgrees
      <4> QED BY <1>0, <1>12, <2>a, <2>b, <4>1 DEF PumpRead, Agrees, Travelling, Fresh, TypeOK, OnePlace
    <3> QED BY <3>1, <3>2 DEF ExecutionAgrees
  <2>4. CallersAgree'
    BY <1>0, <1>12, <2>a, <2>b DEF PumpRead, CallersAgree, Travelling, Fresh, TypeOK
  <2>5. NoLostReply'
    BY <1>12, <2>a, <2>b DEF PumpRead, CallersAgree, NoLostReply, TypeOK
  <2> QED BY <2>1, <2>2, <2>3, <2>4, <2>5
<1>13. ASSUME PumpReadFails PROVE IInv'
  <2>1. TypeOK'
    BY <1>13 DEF PumpReadFails, FailAll, TypeOK
  <2>2. OnePlace'
    BY <1>13 DEF PumpReadFails, FailAll, OnePlace, Fresh, Travelling
  <2>3. ExecutionAgrees'
    <3>1. (\A f \in Range(stdout) : f.id = f.of /\ execs[f.of] = 1)'
      BY <1>13 DEF PumpReadFails, FailAll, ExecutionAgrees, TypeOK
    <3>2. ASSUME NEW i \in Ids PROVE Agrees(i)'
      <4>1. Agrees(i) /\ i \in Nat
        BY <1>0 DEF ExecutionAgrees
      <4> QED BY <1>0, <1>13, <4>1 DEF PumpReadFails, FailAll, Agrees, Travelling, Fresh, TypeOK, OnePlace
    <3> QED BY <3>1, <3>2 DEF ExecutionAgrees
  <2>4. CallersAgree'
    BY <1>0, <1>13 DEF PumpReadFails, FailAll, CallersAgree, Travelling, Fresh, TypeOK
  <2>5. NoLostReply'
    BY <1>13 DEF PumpReadFails, FailAll, CallersAgree, NoLostReply, TypeOK
  <2> QED BY <2>1, <2>2, <2>3, <2>4, <2>5
<1>14. ASSUME PumpExit PROVE IInv'
  <2>a. Range(chan') = {} /\ IsInjective(chan')
    BY <1>14 DEF PumpExit, Range, IsInjective
  <2>1. TypeOK'
    BY <1>14, <2>a DEF PumpExit, TypeOK
  <2>2. OnePlace'
    BY <1>14, <2>a DEF PumpExit, OnePlace, Fresh, Travelling
  <2>3. ExecutionAgrees'
    <3>1. (\A f \in Range(stdout) : f.id = f.of /\ execs[f.of] = 1)'
      BY <1>14, <2>a DEF PumpExit, ExecutionAgrees, TypeOK
    <3>2. ASSUME NEW i \in Ids PROVE Agrees(i)'
      <4>1. Agrees(i) /\ i \in Nat
        BY <1>0 DEF ExecutionAgrees
      <4> QED BY <1>0, <1>14, <2>a, <4>1 DEF PumpExit, Agrees, Travelling, Fresh, TypeOK, OnePlace
    <3> QED BY <3>1, <3>2 DEF ExecutionAgrees
  <2>4. CallersAgree'
    BY <1>0, <1>14, <2>a DEF PumpExit, CallersAgree, Travelling, Fresh, TypeOK
  <2>5. NoLostReply'
    BY <1>14, <2>a DEF PumpExit, CallersAgree, NoLostReply, TypeOK
  <2> QED BY <2>1, <2>2, <2>3, <2>4, <2>5
<1>15. ASSUME WorkerRead PROVE IInv'
  <2>a. /\ Head(stdin) \in Ids /\ Head(stdin) \in Range(stdin)
        /\ stdin' \in Seq(Ids) /\ IsInjective(stdin')
        /\ Range(stdin') = Range(stdin) \ {Head(stdin)}
    BY <1>15, TailContents DEF WorkerRead, TypeOK, OnePlace
  <2>b. cur' = Head(stdin) /\ worker = "reading" /\ worker' = "busy"
    BY <1>15 DEF WorkerRead
  <2>c. UNCHANGED <<sessionVars, callerVars, replyVars, pumpVars, chan, stdout, execs, crashVars>>
    BY <1>15 DEF WorkerRead
  <2>1. TypeOK'
    <3>1. cur' \in 0..MaxCalls
      BY <2>a, <2>b, <2>c DEF TypeOK, Results, Ids
    <3> QED BY <2>a, <2>b, <2>c, <3>1 DEF TypeOK
  <2>2. OnePlace'
    BY <2>a, <2>b, <2>c DEF OnePlace, Fresh, Travelling
  <2>3. ExecutionAgrees'
    <3>1. (\A f \in Range(stdout) : f.id = f.of /\ execs[f.of] = 1)'
      BY <2>a, <2>b, <2>c DEF ExecutionAgrees, TypeOK
    <3>2. ASSUME NEW i \in Ids PROVE Agrees(i)'
      <4>1. Agrees(i) /\ i \in Nat
        BY <1>0 DEF ExecutionAgrees
      <4> QED BY <1>0, <2>a, <2>b, <2>c, <4>1 DEF Agrees, Travelling, Fresh, TypeOK, OnePlace
    <3> QED BY <3>1, <3>2 DEF ExecutionAgrees
  <2>4. CallersAgree'
    BY <1>0, <2>a, <2>b, <2>c DEF CallersAgree, Travelling, Fresh, TypeOK
  <2>5. NoLostReply'
    BY <2>a, <2>b, <2>c DEF CallersAgree, NoLostReply, TypeOK
  <2> QED BY <2>1, <2>2, <2>3, <2>4, <2>5
<1>16. ASSUME WorkerReply PROVE IInv'
  <2>a. /\ cur \in Ids /\ execs[cur] = 0
        /\ cur \notin Range(chan) \cup Range(stdin) /\ Travelling(cur)
    BY <1>16 DEF WorkerReply, OnePlace, ExecutionAgrees, Agrees, Travelling
  <2>b. [id |-> cur, of |-> cur, torn |-> FALSE] \in Frame
    BY <2>a DEF Frame
  <2>c. /\ stdout' \in Seq(Frame)
        /\ Range(stdout') = Range(stdout) \cup {[id |-> cur, of |-> cur, torn |-> FALSE]}
    <3> DEFINE f == [id |-> cur, of |-> cur, torn |-> FALSE]
    <3>1. stdout \in Seq(Frame) /\ stdout' = Append(stdout, f) /\ f \in Frame
      BY <1>16, <2>b DEF WorkerReply, TypeOK
    <3> HIDE DEF f
    <3>2. stdout' \in Seq(Frame) /\ Range(stdout') = Range(stdout) \cup {f}
      BY <3>1, AppendContents
    <3> QED BY <3>2 DEF f
  <2>d. /\ execs' = [execs EXCEPT ![cur] = 1]
        /\ worker = "busy" /\ worker' = "replying"
    BY <1>16, <2>a DEF WorkerReply, TypeOK
  <2>e. UNCHANGED <<sessionVars, callerVars, replyVars, pumpVars, chan, stdin, cur, crashVars>>
    BY <1>16 DEF WorkerReply
  <2>1. TypeOK'
    <3>1. execs' \in [Ids -> Nat]
      BY <2>a, <2>b, <2>c, <2>d, <2>e DEF TypeOK, Results
    <3> QED BY <2>a, <2>b, <2>c, <2>d, <2>e, <3>1, SMTT(60) DEF TypeOK
  <2>2. OnePlace'
    BY <2>a, <2>b, <2>c, <2>d, <2>e DEF OnePlace, Fresh, Travelling
  <2>3. ExecutionAgrees'
    <3>1. (\A f \in Range(stdout) : f.id = f.of /\ execs[f.of] = 1)'
      BY SMTT(60), <2>a, <2>b, <2>c, <2>d, <2>e DEF ExecutionAgrees, TypeOK
    <3>2. ASSUME NEW i \in Ids PROVE Agrees(i)'
      <4>1. Agrees(i) /\ i \in Nat
        BY <1>0 DEF ExecutionAgrees
      <4>2. CASE i = cur
        <5>1. ~Travelling(i)'
          BY <2>a, <2>d, <2>e, <4>2 DEF Travelling
        <5>2. execs'[i] = 1 /\ i < nextId
          BY <1>0, <2>a, <2>d, <4>1, <4>2 DEF TypeOK, Agrees, Fresh
        <5>3. oneshot[i] \notin {"answer", "dropped"} /\ result[i] \notin {"answer", "dropped", "notSent"}
          BY <2>a, <4>1, <4>2 DEF Agrees
        <5> QED BY <1>0, <2>a, <2>e, <4>1, <4>2, <5>1, <5>2, <5>3, SMTT(60) DEF Agrees
      <4>3. CASE i # cur
        <5>1. execs'[i] = execs[i] /\ Travelling(i)' = Travelling(i)
          BY <2>d, <2>e, <4>3 DEF Travelling, TypeOK
        <5>2. Fresh(i)' = Fresh(i)
          BY <2>e, <5>1 DEF Fresh
        <5> QED BY <2>e, <4>1, <5>1, <5>2 DEF Agrees
      <4> QED BY <4>2, <4>3
    <3> QED BY <3>1, <3>2 DEF ExecutionAgrees
  <2>4. CallersAgree'
    BY <1>0, <2>a, <2>b, <2>c, <2>d, <2>e DEF CallersAgree, Travelling, Fresh, TypeOK
  <2>5. NoLostReply'
    BY <2>a, <2>b, <2>c, <2>d, <2>e DEF CallersAgree, NoLostReply, TypeOK
  <2> QED BY <2>1, <2>2, <2>3, <2>4, <2>5
<1>17. ASSUME WorkerReplied PROVE IInv'
  <2>1. TypeOK'
    BY <1>17 DEF WorkerReplied, TypeOK
  <2>2. OnePlace'
    BY <1>17 DEF WorkerReplied, OnePlace, Fresh, Travelling
  <2>3. ExecutionAgrees'
    <3>1. (\A f \in Range(stdout) : f.id = f.of /\ execs[f.of] = 1)'
      BY <1>17 DEF WorkerReplied, ExecutionAgrees, TypeOK
    <3>2. ASSUME NEW i \in Ids PROVE Agrees(i)'
      <4>1. Agrees(i) /\ i \in Nat
        BY <1>0 DEF ExecutionAgrees
      <4> QED BY <1>0, <1>17, <4>1 DEF WorkerReplied, Agrees, Travelling, Fresh, TypeOK, OnePlace
    <3> QED BY <3>1, <3>2 DEF ExecutionAgrees
  <2>4. CallersAgree'
    BY <1>0, <1>17 DEF WorkerReplied, CallersAgree, Travelling, Fresh, TypeOK
  <2>5. NoLostReply'
    BY <1>17 DEF WorkerReplied, CallersAgree, NoLostReply, TypeOK
  <2> QED BY <2>1, <2>2, <2>3, <2>4, <2>5
<1>18. ASSUME WorkerExit PROVE IInv'
  <2>a. /\ stdout' \in Seq(Frame)
        /\ \A f \in Range(stdout') : \E g \in Range(stdout) : f.id = g.id /\ f.of = g.of
    <3>1. stdout \in Seq(Frame)
      BY DEF TypeOK
    <3>2. CASE stdout' = stdout
      BY <3>1, <3>2
    <3>3. CASE stdout' = [stdout EXCEPT ![Len(stdout)].torn = TRUE]
      BY ZenonT(30), <3>1, <3>3, TornContents
    <3> QED BY <1>18, <3>2, <3>3 DEF WorkerExit
  <2>1. TypeOK'
    BY <1>18, <2>a DEF WorkerExit, TypeOK
  <2>2. OnePlace'
    BY <1>18, <2>a DEF WorkerExit, OnePlace, Fresh, Travelling
  <2>3. ExecutionAgrees'
    <3>1. (\A f \in Range(stdout) : f.id = f.of /\ execs[f.of] = 1)'
      <4>1. execs' = execs
        BY <1>18 DEF WorkerExit
      <4> QED BY <2>a, <4>1 DEF ExecutionAgrees
    <3>2. ASSUME NEW i \in Ids PROVE Agrees(i)'
      <4>1. Agrees(i) /\ i \in Nat
        BY <1>0 DEF ExecutionAgrees
      <4> QED BY <1>0, <1>18, <2>a, <4>1 DEF WorkerExit, Agrees, Travelling, Fresh, TypeOK, OnePlace
    <3> QED BY <3>1, <3>2 DEF ExecutionAgrees
  <2>4. CallersAgree'
    BY <1>0, <1>18, <2>a DEF WorkerExit, CallersAgree, Travelling, Fresh, TypeOK
  <2>5. NoLostReply'
    BY <1>18, <2>a DEF WorkerExit, CallersAgree, NoLostReply, TypeOK
  <2> QED BY <2>1, <2>2, <2>3, <2>4, <2>5
<1>19. ASSUME MonitorRecv PROVE IInv'
  <2>1. TypeOK'
    BY <1>19 DEF MonitorRecv, TypeOK
  <2>2. OnePlace'
    BY <1>19 DEF MonitorRecv, OnePlace, Fresh, Travelling
  <2>3. ExecutionAgrees'
    <3>1. (\A f \in Range(stdout) : f.id = f.of /\ execs[f.of] = 1)'
      BY <1>19 DEF MonitorRecv, ExecutionAgrees, TypeOK
    <3>2. ASSUME NEW i \in Ids PROVE Agrees(i)'
      <4>1. Agrees(i) /\ i \in Nat
        BY <1>0 DEF ExecutionAgrees
      <4> QED BY <1>0, <1>19, <4>1 DEF MonitorRecv, Agrees, Travelling, Fresh, TypeOK, OnePlace
    <3> QED BY <3>1, <3>2 DEF ExecutionAgrees
  <2>4. CallersAgree'
    BY <1>0, <1>19 DEF MonitorRecv, CallersAgree, Travelling, Fresh, TypeOK
  <2>5. NoLostReply'
    BY <1>19 DEF MonitorRecv, CallersAgree, NoLostReply, TypeOK
  <2> QED BY <2>1, <2>2, <2>3, <2>4, <2>5
<1>20. ASSUME MarkCrashed PROVE IInv'
  <2>1. TypeOK'
    BY <1>20 DEF MarkCrashed, TypeOK
  <2>2. OnePlace'
    BY <1>20 DEF MarkCrashed, OnePlace, Fresh, Travelling
  <2>3. ExecutionAgrees'
    <3>1. (\A f \in Range(stdout) : f.id = f.of /\ execs[f.of] = 1)'
      BY <1>20 DEF MarkCrashed, ExecutionAgrees, TypeOK
    <3>2. ASSUME NEW i \in Ids PROVE Agrees(i)'
      <4>1. Agrees(i) /\ i \in Nat
        BY <1>0 DEF ExecutionAgrees
      <4> QED BY <1>0, <1>20, <4>1 DEF MarkCrashed, Agrees, Travelling, Fresh, TypeOK, OnePlace
    <3> QED BY <3>1, <3>2 DEF ExecutionAgrees
  <2>4. CallersAgree'
    BY <1>0, <1>20 DEF MarkCrashed, CallersAgree, Travelling, Fresh, TypeOK
  <2>5. NoLostReply'
    BY <1>20 DEF MarkCrashed, CallersAgree, NoLostReply, TypeOK
  <2> QED BY <2>1, <2>2, <2>3, <2>4, <2>5
<1>21. ASSUME UNCHANGED vars PROVE IInv'
  <2>1. TypeOK' /\ OnePlace'
    BY SMTT(30), <1>21 DEF TypeOK, OnePlace
  <2>2. ExecutionAgrees'
    BY <1>21 DEF ExecutionAgrees, Agrees, Travelling, Fresh
  <2>3. CallersAgree' /\ NoLostReply'
    BY <1>21 DEF CallersAgree, NoLostReply, Travelling, Fresh
  <2> QED BY <2>1, <2>2, <2>3
<1> QED BY <1>1, <1>2, <1>3, <1>4, <1>5, <1>6, <1>7, <1>8, <1>9, <1>10, <1>11,
  <1>12, <1>13, <1>14, <1>15, <1>16, <1>17, <1>18, <1>19, <1>20, <1>21
  DEF Next, CallerStep, PumpStep, WorkerStep

\* The invariant of the session's transport holds in every reachable state of
\* the callers, pump_task, the worker and the monitor.
THEOREM SessionInvariant == Spec => []IInv
<1>1. Init => IInv
  BY InitIInv
<1>2. IInv /\ [Next]_vars => IInv'
  BY StepIInv
<1> QED BY <1>1, <1>2, PTL DEF Spec

\* Every variable of the session keeps its type.
THEOREM TypeCorrect == Spec => []TypeOK
<1>1. IInv => TypeOK
  BY DEF IInv
<1> QED BY <1>1, SessionInvariant, PTL

\* A call that returns an answer returns the one answer to its own request,
\* however many calls timed out before it and whenever their late answers
\* reach pump_task.
THEOREM AnswersAreOwn == Spec => []AnswerIsOwn
<1>1. IInv => AnswerIsOwn
  BY DEF IInv, AnswerIsOwn, ExecutionAgrees, Agrees
<1> QED BY <1>1, SessionInvariant, PTL

\* No caller waits for a reply that the pump has lost track of.
THEOREM RepliesAreNotLost == Spec => []NoLostReply
<1>1. IInv => NoLostReply
  BY DEF IInv
<1> QED BY <1>1, SessionInvariant, PTL

\* A step of the session is a step of the call service it implements, or
\* changes nothing the service shows.
LEMMA StepImplements == IInv /\ IInv' /\ [Next]_vars => [Calls!Next]_(Calls!vars)
<1> SUFFICES ASSUME IInv, IInv', [Next]_vars PROVE [Calls!Next]_(Calls!vars)
  OBVIOUS
<1> USE SessionAssumption
<1> USE DEF vars, sessionVars, callerVars, replyVars, pumpVars, pipeVars, workerVars, crashVars
<1>0. /\ nextId \in Nat \ {0} /\ \A i \in Ids : i \in Nat
      /\ Calls!Ids = Ids
  <2>1. nextId \in 1..(MaxCalls + 1)
    BY DEF IInv, TypeOK
  <2>2. nextId \in Nat \ {0}
    BY <2>1
  <2>3. \A i \in Ids : i \in Nat
    BY DEF Ids
  <2>4. Calls!Ids = Ids
    BY DEF Ids, Calls!Ids
  <2> QED BY <2>2, <2>3, <2>4
<1>1. ASSUME UNCHANGED <<nextId, execs, result>> PROVE [Calls!Next]_(Calls!vars)
  BY <1>1 DEF Calls!vars
<1>2. ASSUME NEW c \in Callers, StartCall(c) PROVE Calls!Next
  <2>1. nextId - 1 < MaxCalls /\ nextId' - 1 = (nextId - 1) + 1
    BY <1>0, <1>2 DEF StartCall, Ids
  <2> QED BY <1>2, <2>1 DEF StartCall, Calls!Next, Calls!Issue
<1>3. ASSUME NEW c \in Callers, NEW r \in Results, Return(c, r),
             call[c] \in Ids, call[c] < nextId, result[call[c]] = "none",
             \/ r = "answer" /\ execs[call[c]] = 1
             \/ r \in {"notSent", "dropped"} /\ execs[call[c]] = 0
             \/ r \in {"failed", "timeout"}
      PROVE  Calls!Next
  <2>1. call[c] \in Calls!Ids /\ call[c] <= nextId - 1 /\ (nextId - 1)' = nextId - 1
    BY <1>0, <1>3 DEF Return
  <2>2. Calls!Finish(call[c], r)
    BY <1>3, <2>1 DEF Return, Calls!Finish, Calls!Unreached, Calls!Unknown
  <2>3. r \in {"answer"} \cup Calls!Unreached \cup Calls!Unknown
    BY <1>3 DEF Calls!Unreached, Calls!Unknown
  <2> QED BY <2>1, <2>2, <2>3 DEF Calls!Next
<1>4. ASSUME NEW c \in Callers, SendFails(c) \/ Receive(c) \/ TimeOut(c) PROVE Calls!Next
  <2>1. call[c] \in Ids /\ call[c] < nextId /\ result[call[c]] = "none"
    BY <1>4 DEF IInv, CallersAgree, SendFails, Receive, TimeOut
  <2>2. Agrees(call[c])
    BY <2>1 DEF IInv, ExecutionAgrees
  <2>3. CASE SendFails(c)
    <3>1. execs[call[c]] = 0
      BY <2>3 DEF IInv, CallersAgree, Fresh, SendFails
    <3> QED BY <1>3, <2>1, <2>3, <3>1 DEF SendFails, Results
  <2>4. CASE Receive(c)
    <3>1. oneshot[call[c]] \in {"answer", "failed", "dropped"}
      BY <2>1, <2>4 DEF IInv, TypeOK, Receive
    <3> QED BY <1>3, <2>1, <2>2, <2>4, <3>1 DEF Receive, Results, Agrees
  <2>5. CASE TimeOut(c)
    BY <1>3, <2>1, <2>5 DEF TimeOut, Results
  <2> QED BY <1>4, <2>3, <2>4, <2>5
<1>5. ASSUME WorkerReply PROVE Calls!Next
  <2>1. cur \in Ids /\ Travelling(cur)
    BY <1>5 DEF IInv, OnePlace, WorkerReply, Travelling
  <2>a. Agrees(cur)
    BY <2>1 DEF IInv, ExecutionAgrees
  <2>2. execs[cur] = 0 /\ cur < nextId
    <3>1. execs[cur] = 0
      BY <2>1, <2>a DEF Agrees
    <3>2. ~(cur >= nextId)
      BY <2>1, <2>a DEF Agrees, Fresh
    <3> QED BY <1>0, <2>1, <3>1, <3>2
  <2>3. result[cur] \notin {"notSent", "dropped"}
    BY <2>1, <2>a DEF Agrees
  <2>4. execs' = [execs EXCEPT ![cur] = 1] /\ UNCHANGED <<nextId, result>>
    <3>1. execs' = [execs EXCEPT ![cur] = execs[cur] + 1] /\ UNCHANGED <<nextId, result>>
      BY <1>5 DEF WorkerReply
    <3>2. execs[cur] + 1 = 1
      BY <2>2
    <3> QED BY Zenon, <3>1, <3>2
  <2>5. cur <= nextId - 1 /\ (nextId - 1)' = nextId - 1
    BY <1>0, <2>1, <2>2, <2>4
  <2>6. Calls!Execute(cur)
    BY <2>2, <2>3, <2>4, <2>5 DEF Calls!Execute, Calls!Unreached
  <2> QED BY <1>0, <2>1, <2>6 DEF Calls!Next
<1>6. CASE UNCHANGED vars
  BY <1>1, <1>6
<1>7. ASSUME NEW c \in Callers, LockSession(c) \/ UnlockSession(c) \/ Enqueue(c)
      PROVE  UNCHANGED <<nextId, execs, result>>
  BY <1>7 DEF LockSession, UnlockSession, Enqueue
<1>8. CASE PumpStep
  <2>1. UNCHANGED <<nextId, execs, result>>
    BY <1>8 DEF PumpStep, PumpTake, PumpWrote, PumpWriteFails, PumpReadsPart, PumpRead,
                PumpReadFails, PumpExit
  <2> QED BY <1>1, <2>1
<1>9. ASSUME WorkerRead \/ WorkerReplied \/ WorkerExit \/ MonitorRecv \/ MarkCrashed
      PROVE  UNCHANGED <<nextId, execs, result>>
  BY <1>9 DEF WorkerRead, WorkerReplied, WorkerExit, MonitorRecv, MarkCrashed
<1> QED BY <1>1, <1>2, <1>4, <1>5, <1>6, <1>7, <1>8, <1>9 DEF Next, CallerStep, WorkerStep

\* The session keeps the promise of CallFailure: it implements CallService, so
\* no request is executed twice, and none is executed after its caller was
\* told that it never reached the worker.
THEOREM SessionImplementsCallService == Spec => ImplementsCallService
<1>1. Init => Calls!Init
  BY DEF Init, Calls!Init, Calls!Ids, Ids
<1>2. IInv /\ IInv' /\ [Next]_vars => [Calls!Next]_(Calls!vars)
  BY StepImplements
<1> QED BY <1>1, <1>2, SessionInvariant, PTL DEF Spec, ImplementsCallService, Calls!Spec

=============================================================================
