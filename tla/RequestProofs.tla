--------------------------- MODULE RequestProofs ---------------------------
(***************************************************************************)
(* The answers of the requests are right whatever was requested before,    *)
(* for all inputs that meet the assumptions of Requests, and the result    *)
(* store keeps what it promises, for every cap, TTL, threshold and number  *)
(* of results.                                                             *)
(***************************************************************************)
EXTENDS RequestProperties, MatchingLemmas

(***************************************************************************)
(* The result store.                                                       *)
(***************************************************************************)
\* The handles form a finite set, and so does every part of it.
LEMMA HandlesAreFinite ==
    ASSUME created \in Seq(Nat), NEW S, S \subseteq Handles
    PROVE  IsFiniteSet(S)
<1>1. Len(created) \in Nat
  OBVIOUS
<1>2. IsFiniteSet(1..Len(created))
  BY <1>1, FS_Interval
<1>3. QED
  BY <1>2, FS_Subset DEF Handles

\* Evicting the excess leaves exactly MaxEntries entries, or all when there is
\* no excess.
LEMMA CapLeavesMax ==
    ASSUME created \in Seq(Nat), store \subseteq Handles, NEW E \in Oldest(Excess), E # {}
    PROVE  /\ Cardinality(store \ E) = MaxEntries
           /\ \A e \in E : store \ E \subseteq NoOlder(e)
<1>1. /\ IsFiniteSet(store)
      /\ IsFiniteSet(E)
      /\ E \subseteq store
  BY HandlesAreFinite DEF Oldest
<1>2. /\ Cardinality(store) \in Nat
      /\ Cardinality(E) \in Nat
      /\ Cardinality(E) = Excess
  BY <1>1, FS_CardinalityType DEF Oldest
<1>3. Cardinality(E) # 0
  BY <1>1, FS_EmptySet
<1>4. Cardinality(store \ E) = Cardinality(store) - Cardinality(store \cap E)
  BY <1>1, FS_Difference
<1>5. Cardinality(store \ E) = Cardinality(store) - Excess
  <2>1. store \cap E = E
    BY <1>1
  <2>2. QED
    BY <2>1, <1>2, <1>4
<1>6. MaxEntries \in Nat
  BY StoreAssumption
<1>7. Cardinality(store \ E) = MaxEntries
  <2>1. Excess = Cardinality(store) - MaxEntries
    BY <1>2, <1>3 DEF Excess
  <2>2. QED
    BY <2>1, <1>2, <1>5, <1>6
<1>8. ASSUME NEW e \in E, NEW k \in store \ E
      PROVE  k \in NoOlder(e)
  <2>1. created[e] <= created[k]
    BY DEF Oldest
  <2>2. e \in Handles /\ k \in Handles /\ k # e
    BY <1>1
  <2>3. created[e] \in Nat /\ created[k] \in Nat
    BY <2>2 DEF Handles
  <2>4. QED
    BY <2>1, <2>2, <2>3 DEF NoOlder
<1>9. QED
  BY <1>7, <1>8

\* What is issued later only adds to the handles that are no older.
LEMMA NoOlderGrows ==
    ASSUME StoreTypeOK, NEW n \in Nat, created' = Append(created, n), NEW h \in Handles,
           MaxEntries > 0, Cardinality(NoOlder(h)) >= MaxEntries
    PROVE  Cardinality(NoOlder(h)') >= MaxEntries
<1>1. /\ created' \in Seq(Nat)
      /\ \A k \in Handles : k \in Handles' /\ created'[k] = created[k]
  BY DEF StoreTypeOK, Handles
<1>2. NoOlder(h) \subseteq NoOlder(h)'
  BY <1>1 DEF NoOlder
<1>3. IsFiniteSet(NoOlder(h)')
  <2>1. Len(created') \in Nat
    BY <1>1
  <2>2. IsFiniteSet(1..Len(created'))
    BY <2>1, FS_Interval
  <2>3. QED
    BY <2>2, FS_Subset DEF NoOlder, Handles
<1>4. IsFiniteSet(NoOlder(h)) /\ Cardinality(NoOlder(h)) <= Cardinality(NoOlder(h)')
  BY <1>2, <1>3, FS_Subset
<1>5. Cardinality(NoOlder(h)) \in Nat /\ Cardinality(NoOlder(h)') \in Nat
  BY <1>3, <1>4, FS_CardinalityType
<1>6. QED
  BY <1>4, <1>5, StoreAssumption

\* The inductive invariant: the promise needs the types, nothing more.
StoreInv == StoreTypeOK /\ StoreKeepsResults

\* A new store is empty and has lost nothing.
LEMMA StoreInitInv == StoreInit => StoreInv
BY DEF StoreInit, StoreInv, StoreTypeOK, StoreKeepsResults, Handles

\* Entries and released handles are always handles put has issued.
LEMMA StoreTypeStep == StoreTypeOK /\ [StoreNext]_storeVars => StoreTypeOK'
<1> SUFFICES ASSUME StoreTypeOK, [StoreNext]_storeVars
             PROVE  StoreTypeOK'
  OBVIOUS
<1> USE DEF StoreTypeOK, Handles
<1>1. ASSUME NEW len \in Lengths, put(len) PROVE StoreTypeOK'
  <2>1. CASE len > Threshold
    <3>1. created' = Append(created, now) /\ Len(created') = Len(created) + 1
      BY <1>1, <2>1 DEF put
    <3>2. created' \in Seq(Nat) /\ Len(created) \in Nat
      BY <3>1
    <3>3. /\ store' = store \cup {Len(created) + 1}
          /\ now' = now /\ released' = released /\ janitor' = janitor
      BY <1>1, <2>1 DEF put
    <3>4. store' \subseteq 1..Len(created') /\ released' \subseteq 1..Len(created')
      <4>1. 1..Len(created') = 1..Len(created) \cup {Len(created) + 1}
        BY <3>1, <3>2
      <4>2. QED
        BY <3>3, <4>1
    <3>5. QED
      BY <3>2, <3>3, <3>4
  <2>2. CASE ~(len > Threshold)
    BY <1>1, <2>2 DEF put
  <2>3. QED
    BY <2>1, <2>2
<1>2. ASSUME NEW h \in Handles, get(h) PROVE StoreTypeOK'
  BY <1>2 DEF get
<1>3. ASSUME NEW h \in Handles, release(h) PROVE StoreTypeOK'
  BY <1>3 DEF release
<1>4. CASE sweep
  BY <1>4 DEF sweep
<1>5. CASE enforce_cap
  BY <1>5 DEF enforce_cap
<1>6. CASE StoreTick
  BY <1>6 DEF StoreTick
<1>7. CASE UNCHANGED storeVars
  BY <1>7 DEF storeVars
<1>8. QED
  BY <1>1, <1>2, <1>3, <1>4, <1>5, <1>6, <1>7 DEF StoreNext

\* No operation of the store loses a result early: get and sweep only remove
\* what has expired, release what it marks, and enforce_cap what MaxEntries
\* others are no older than.
LEMMA StoreInvStep == StoreInv /\ [StoreNext]_storeVars => StoreInv'
<1> SUFFICES ASSUME StoreInv, [StoreNext]_storeVars
             PROVE  StoreKeepsResults'
  BY StoreTypeStep DEF StoreInv
<1>0. StoreTypeOK /\ StoreTypeOK' /\ StoreKeepsResults
  BY StoreTypeStep DEF StoreInv
<1>p. MaxEntries \in Nat /\ ResultTTL \in Nat
  BY StoreAssumption
<1>t. \A h \in Handles : created[h] \in Nat
  BY <1>0 DEF StoreTypeOK, Handles
\* Every step but put leaves the handles and their times alone.
<1>s. ASSUME UNCHANGED created, now' >= now, now' \in Nat,
             \A h \in Handles \ (store' \cup released') :
                 \/ h \notin store
                 \/ Expired(h)
                 \/ MaxEntries > 0 /\ Cardinality(NoOlder(h)) >= MaxEntries,
             released \subseteq released'
      PROVE  StoreKeepsResults'
  <2>1. Handles' = Handles /\ \A h : NoOlder(h)' = NoOlder(h)
    BY <1>s DEF Handles, NoOlder
  <2>2. \A h \in Handles : Expired(h) => Expired(h)'
    BY <1>s, <1>0, <1>p, <1>t DEF Expired, StoreTypeOK
  <2>3. ASSUME NEW h \in Handles', h \notin store' \cup released'
        PROVE  Expired(h)' \/ (MaxEntries > 0 /\ Cardinality(NoOlder(h)') >= MaxEntries)
    <3>1. h \in Handles /\ h \notin released
      BY <1>s, <2>1, <2>3
    <3>2. Expired(h) \/ (MaxEntries > 0 /\ Cardinality(NoOlder(h)) >= MaxEntries)
      BY <1>s, <1>0, <2>3, <3>1 DEF StoreKeepsResults
    <3>3. QED
      BY <2>1, <2>2, <3>1, <3>2
  <2>4. QED
    BY <2>3 DEF StoreKeepsResults
<1>1. ASSUME NEW len \in Lengths, put(len) PROVE StoreKeepsResults'
  <2>1. CASE len > Threshold
    <3>1. /\ created' = Append(created, now)
          /\ store' = store \cup {Len(created) + 1}
          /\ now' = now /\ released' = released /\ now \in Nat
      BY <1>1, <1>0, <2>1 DEF put, StoreTypeOK
    <3>2. ASSUME NEW h \in Handles', h \notin store' \cup released'
          PROVE  /\ h \in Handles \ (store \cup released)
                 /\ created'[h] = created[h]
      BY <1>0, <3>1, <3>2 DEF StoreTypeOK, Handles
    <3>3. ASSUME NEW h \in Handles', h \notin store' \cup released'
          PROVE  Expired(h)' \/ (MaxEntries > 0 /\ Cardinality(NoOlder(h)') >= MaxEntries)
      <4>1. h \in Handles \ (store \cup released) /\ created'[h] = created[h]
        BY <3>2, <3>3
      <4>2. CASE Expired(h)
        BY <4>1, <4>2, <3>1 DEF Expired
      <4>3. CASE MaxEntries > 0 /\ Cardinality(NoOlder(h)) >= MaxEntries
        BY <4>1, <4>3, <3>1, <1>0, NoOlderGrows
      <4>4. QED
        BY <4>1, <4>2, <4>3, <1>0 DEF StoreKeepsResults
    <3>4. QED
      BY <3>3 DEF StoreKeepsResults
  <2>2. CASE ~(len > Threshold)
    BY <1>1, <1>0, <1>s, <2>2 DEF put, StoreTypeOK
  <2>3. QED
    BY <2>1, <2>2
<1>2. ASSUME NEW h \in Handles, get(h) PROVE StoreKeepsResults'
  BY <1>2, <1>0, <1>s DEF get, StoreTypeOK
<1>3. ASSUME NEW h \in Handles, release(h) PROVE StoreKeepsResults'
  BY <1>3, <1>0, <1>s DEF release, StoreTypeOK
<1>4. CASE sweep
  BY <1>4, <1>0, <1>s DEF sweep, StoreTypeOK
<1>5. CASE enforce_cap
  <2>1. /\ UNCHANGED <<now, created, released>>
        /\ now \in Nat
        /\ created \in Seq(Nat)
        /\ store \subseteq Handles
    BY <1>5, <1>0 DEF enforce_cap, StoreTypeOK
  <2>2. CASE MaxEntries > 0
    <3>1. PICK E \in Oldest(Excess) : store' = store \ E
      BY <1>5, <2>2 DEF enforce_cap
    <3>2. ASSUME NEW h \in store, h \notin store'
          PROVE  Cardinality(NoOlder(h)) >= MaxEntries
      <4>1. h \in E
        BY <3>1, <3>2
      <4>2. Cardinality(store \ E) = MaxEntries /\ store \ E \subseteq NoOlder(h)
        BY <2>1, <4>1, CapLeavesMax
      <4>3. IsFiniteSet(NoOlder(h))
        BY <2>1, HandlesAreFinite DEF NoOlder
      <4>4. Cardinality(store \ E) <= Cardinality(NoOlder(h))
        BY <4>2, <4>3, FS_Subset
      <4>5. QED
        BY <4>2, <4>3, <4>4, <1>p, FS_CardinalityType
    <3>3. QED
      BY <1>s, <2>1, <2>2, <3>2
  <2>3. CASE ~(MaxEntries > 0)
    BY <1>5, <1>s, <2>1, <2>3 DEF enforce_cap
  <2>4. QED
    BY <2>2, <2>3
<1>6. CASE StoreTick
  BY <1>6, <1>0, <1>s DEF StoreTick, StoreTypeOK
<1>7. CASE UNCHANGED storeVars
  BY <1>7, <1>0, <1>s DEF storeVars, StoreTypeOK
<1>8. QED
  BY <1>1, <1>2, <1>3, <1>4, <1>5, <1>6, <1>7 DEF StoreNext

\* No result the agent still holds a handle of is lost before its TTL runs out
\* or MaxEntries others were stored since, whatever the interleaving of puts,
\* reads, releases and the two steps of the janitor.
THEOREM ResultsAreKept == StoreSpec => []StoreKeepsResults
<1>1. StoreInv /\ [StoreNext]_storeVars => StoreInv'
  BY StoreInvStep
<1>2. StoreInv => StoreKeepsResults
  BY DEF StoreInv
<1>3. QED
  BY StoreInitInv, <1>1, <1>2, PTL DEF StoreSpec

(***************************************************************************)
(* The requests.                                                           *)
(***************************************************************************)
\* What is open is one of the inputs that the assumptions describe: a host still has
\* its shape after installations went and the cache changed.
InputIs ==
    /\ input.kind = "binaries" => input.a \in Binaries /\ input.b \in Binaries
    /\ input.kind = "blocks" => input.a \in BlockLists /\ input.b \in BlockLists
    /\ input.kind = "obfuscated" =>
          /\ input = [kind |-> "obfuscated", function |-> input.function,
                      references |-> input.references]
          /\ input.function \in Obfuscated
    /\ input.kind = "body" => <<input.body, input.params>> \in WasmBodies
    /\ input.kind = "host" =>
          /\ input = [kind |-> "host", host |-> input.host]
          /\ HostType(input.host)

\* The kind of input that each tool answers for: an answer outlives no input.
AnswersKind ==
    [identify |-> "binaries", map |-> "binaries", diff_binary |-> "binaries", diff |-> "blocks",
     plan |-> "obfuscated", validated |-> "obfuscated", ssa |-> "body", resolve |-> "host"]

AnswerFits == answer.tool \in DOMAIN AnswersKind => input.kind = AnswersKind[answer.tool]

AnswersAreRight ==
    /\ DiffAccountsForBlocks
    /\ SelfIsRecognised
    /\ JunkIsTakenPairwise
    /\ WasmConstantsAreRight
    /\ DiscoveryFindsBest

\* The inductive invariant.
RequestInv == InputIs /\ AnswerFits /\ AnswersAreRight

\* The kinds of input, tool by tool.
LEMMA KindsOfAnswers ==
    /\ DOMAIN AnswersKind =
          {"identify", "map", "diff_binary", "diff", "plan", "validated", "ssa", "resolve"}
    /\ \A tool \in {"identify", "map", "diff_binary"} : AnswersKind[tool] = "binaries"
    /\ AnswersKind["diff"] = "blocks"
    /\ AnswersKind["plan"] = "obfuscated" /\ AnswersKind["validated"] = "obfuscated"
    /\ AnswersKind["ssa"] = "body" /\ AnswersKind["resolve"] = "host"
BY DEF AnswersKind

\* Each property is about the answers of its tools only.
LEMMA OtherTools ==
    /\ answer'.tool # "diff" => DiffAccountsForBlocks'
    /\ answer'.tool \notin {"identify", "map", "diff_binary"} => SelfIsRecognised'
    /\ answer'.tool # "plan" => JunkIsTakenPairwise'
    /\ answer'.tool # "ssa" => WasmConstantsAreRight'
    /\ answer'.tool # "resolve" => DiscoveryFindsBest'
<1>1. answer'.tool # "diff" => DiffAccountsForBlocks'
    BY DEF DiffAccountsForBlocks
<1>2. answer'.tool \notin {"identify", "map", "diff_binary"} => SelfIsRecognised'
    BY DEF SelfIsRecognised
<1>3. answer'.tool # "plan" => JunkIsTakenPairwise'
    BY DEF JunkIsTakenPairwise
<1>4. answer'.tool # "ssa" => WasmConstantsAreRight'
    BY DEF WasmConstantsAreRight
<1>5. answer'.tool # "resolve" => DiscoveryFindsBest'
    BY DEF DiscoveryFindsBest
<1> QED BY <1>1, <1>2, <1>3, <1>4, <1>5

\* Nothing is promised of an answer that no property is about.
LEMMA NothingTold ==
    ASSUME answer'.tool \notin DOMAIN AnswersKind
    PROVE  AnswerFits' /\ AnswersAreRight'
<1>1. DOMAIN AnswersKind = {"identify", "map", "diff_binary", "diff", "plan", "validated", "ssa", "resolve"}
    BY KindsOfAnswers
<1>2. AnswerFits'
    BY DEF AnswerFits
<1> QED BY <1>1, <1>2, OtherTools DEF AnswersAreRight

\* A step that leaves input and answer alone.
LEMMA NothingChanged ==
    ASSUME RequestInv, UNCHANGED <<input, answer>>
    PROVE  RequestInv'
<1>1. InputIs'
    BY DEF RequestInv, InputIs
<1>2. AnswerFits'
    BY DEF RequestInv, AnswerFits
<1>3. DiffAccountsForBlocks'
    BY DEF RequestInv, AnswersAreRight, DiffAccountsForBlocks
<1>4. SelfIsRecognised'
    BY DEF RequestInv, AnswersAreRight, SelfIsRecognised
<1>5. JunkIsTakenPairwise'
    BY DEF RequestInv, AnswersAreRight, JunkIsTakenPairwise
<1>6. WasmConstantsAreRight'
    BY DEF RequestInv, AnswersAreRight, WasmConstantsAreRight
<1>7. DiscoveryFindsBest'
    BY DEF RequestInv, AnswersAreRight, DiscoveryFindsBest
<1> QED BY <1>1, <1>2, <1>3, <1>4, <1>5, <1>6, <1>7 DEF RequestInv, AnswersAreRight

\* Nothing is open and nothing was answered at the start.
LEMMA RequestInit == Init => RequestInv
<1> SUFFICES ASSUME Init PROVE RequestInv
    OBVIOUS
<1>1. input.kind = "nothing" /\ answer.tool = "none"
    BY DEF Init, Nothing, NoAnswer
<1>2. InputIs
    BY <1>1 DEF InputIs
<1>3. AnswerFits
    BY <1>1, KindsOfAnswers DEF AnswerFits
<1>4. AnswersAreRight
    BY <1>1 DEF AnswersAreRight, DiffAccountsForBlocks, SelfIsRecognised, JunkIsTakenPairwise,
                WasmConstantsAreRight, DiscoveryFindsBest
<1> QED BY <1>2, <1>3, <1>4 DEF RequestInv

\* Nothing was answered while nothing was open.
LEMMA OpenKeeps == RequestInv /\ OpenRequest => RequestInv'
<1> SUFFICES ASSUME RequestInv, OpenRequest PROVE RequestInv'
    OBVIOUS
<1>1. answer' = answer /\ answer.tool \notin DOMAIN AnswersKind
    <2>1. input.kind = "nothing"
        BY DEF OpenRequest, Nothing
    <2>2. answer.tool \in DOMAIN AnswersKind => AnswersKind[answer.tool] # "nothing"
        BY KindsOfAnswers
    <2>3. answer' = answer
        BY DEF OpenRequest, OpenBinaries, OpenBlocks, OpenObfuscated, OpenBody, OpenHost,
               OpenResults, Open
    <2> QED BY <2>1, <2>2, <2>3 DEF RequestInv, AnswerFits
<1>2. InputIs'
    <2>1. CASE OpenBinaries
        BY <2>1 DEF OpenBinaries, Open, InputIs
    <2>2. CASE OpenBlocks
        BY <2>2 DEF OpenBlocks, Open, InputIs
    <2>3. CASE OpenObfuscated
        BY <2>3 DEF OpenObfuscated, Open, InputIs
    <2>4. CASE OpenBody
        <3>1. PICK b \in WasmBodies : Open([kind |-> "body", body |-> b[1], params |-> b[2]])
            BY <2>4 DEF OpenBody
        <3>2. b = <<b[1], b[2]>>
            BY WasmAssumption
        <3>3. input'.kind = "body" /\ input'.body = b[1] /\ input'.params = b[2]
            BY <3>1 DEF Open
        <3> QED BY <3>2, <3>3 DEF InputIs
    <2>5. CASE OpenHost
        <3>1. PICK h \in Hosts : Open([kind |-> "host", host |-> h])
            BY <2>5 DEF OpenHost
        <3>2. input' = [kind |-> "host", host |-> h] /\ HostType(h)
            BY <3>1, HostAssumption DEF Open
        <3> QED BY <3>2 DEF InputIs
    <2>6. CASE OpenResults
        BY <2>6 DEF OpenResults, Open, InputIs
    <2> QED BY <2>1, <2>2, <2>3, <2>4, <2>5, <2>6 DEF OpenRequest
<1> QED BY <1>1, <1>2, NothingTold DEF RequestInv

\* The block lists that are compared have their types.
LEMMA BlocksAreTyped ==
    ASSUME NEW a \in BlockLists
    PROVE  Blocks(a)
<1>1. a \in Seq(BlockFp)
    BY MatchingAssumption
<1> QED BY <1>1 DEF Blocks

\* The binaries that are compared have their types and one function per address.
LEMMA BinariesAreTyped ==
    ASSUME NEW r \in Binaries
    PROVE  SigList(r) /\ Apart(r)
<1>1. r \in Seq(FunctionSig)
    BY MatchingAssumption
<1>2. /\ \A i \in DOMAIN r : \A S \in {r[i].imports, r[i].strings, r[i].constants} : IsFiniteSet(S)
      /\ \A i, j \in DOMAIN r : r[i].ea = r[j].ea => i = j
    BY MatchingAssumption
<1>3. Len(r) \in Nat /\ DOMAIN r = 1..Len(r) /\ \A i \in DOMAIN r : r[i] \in FunctionSig
    BY <1>1
<1>4. \A i \in DOMAIN r : Sig(r[i])
    BY <1>2, <1>3 DEF Sig
<1> QED BY <1>2, <1>3, <1>4 DEF SigList, Apart

\* Two functions have equal evidence when all that similarity looks at agrees.
LEMMA EvidenceIsEqual ==
    ASSUME NEW f, NEW g
    PROVE  FamilyEvidence(f) = FamilyEvidence(g) <=> SameEvidence(f, g)
BY DEF FamilyEvidence, SameEvidence

\* sig_identify, sig_map, sig_diff_binaries and sig_diff answer rightly.
LEMMA MatchingKeeps == RequestInv /\ MatchingRequest => RequestInv'
<1> SUFFICES ASSUME RequestInv, MatchingRequest PROVE RequestInv'
    OBVIOUS
<1>1. UNCHANGED input /\ InputIs'
    <2>1. UNCHANGED input
        BY DEF MatchingRequest, sig_identify, sig_map, sig_diff_binaries, sig_diff, Reply
    <2> QED BY <2>1 DEF RequestInv, InputIs
<1>2. CASE sig_identify
    <2>1. PICK k \in DOMAIN input.a :
             answer' = [tool |-> "identify", probe |-> input.a[k],
                        candidates |-> identify_function(input.a[k], input.b, 10)]
        BY <1>2 DEF sig_identify, Reply
    <2> DEFINE f == input.a[k]
               r == input.b
    <2>2. input.kind = "binaries" /\ SigList(input.a) /\ SigList(r) /\ Apart(r)
        BY <1>2, BinariesAreTyped DEF sig_identify, RequestInv, InputIs
    <2>3. Sig(f)
        BY <2>2 DEF SigList
    <2>4. /\ answer'.tool = "identify" /\ answer'.probe = f
          /\ answer'.candidates = identify_function(f, r, 10)
        BY <2>1
    <2> HIDE DEF f, r
    <2>5. ASSUME NEW j \in DOMAIN r, FamilyEvidence(r[j]) = FamilyEvidence(f)
          PROVE  LET c == identify_function(f, r, 10)
                 IN  /\ c[1].kind = "strict"
                     /\ \E i \in DOMAIN r : /\ r[i].ea = c[1].ea
                                            /\ FamilyEvidence(r[i]) = FamilyEvidence(f)
        <3>1. SameEvidence(f, r[j])
            BY <2>5, EvidenceIsEqual
        <3>2. LET c == identify_function(f, r, 10)
              IN  /\ c[1].kind = "strict"
                  /\ \E i \in DOMAIN r : r[i].ea = c[1].ea /\ SameEvidence(f, r[i])
            <4>1. 10 \in Nat \ {0}
                OBVIOUS
            <4> QED BY <2>2, <2>3, <3>1, <4>1, IdentifyFindsSelf
        <3> QED BY <3>2, EvidenceIsEqual
    <2>6. SelfIsRecognised'
        BY <1>1, <2>4, <2>5 DEF SelfIsRecognised, r
    <2>7. AnswerFits'
        BY <1>1, <2>2, <2>4, KindsOfAnswers DEF AnswerFits
    <2> QED BY <1>1, <2>4, <2>6, <2>7, OtherTools DEF RequestInv, AnswersAreRight
<1>3. CASE sig_map
    <2>1. answer' = [tool |-> "map", result |-> sig_map_from_sigs(input.a, input.b, 100)]
        BY <1>3 DEF sig_map, Reply
    <2> DEFINE a == input.a
               b == input.b
               m == sig_map_from_sigs(a, b, 100)
    <2>2. input.kind = "binaries" /\ SigList(a) /\ Apart(a) /\ SigList(b)
        BY <1>3, BinariesAreTyped DEF sig_map, RequestInv, InputIs
    <2>3. answer'.tool = "map" /\ answer'.result = m
        BY <2>1
    <2> HIDE DEF a, b
    <2>4. ASSUME NEW i \in DOMAIN a, NEW j \in DOMAIN b, FamilyEvidence(b[j]) = FamilyEvidence(a[i])
          PROVE  LET rows == {t \in Range(m.transfers) : t.from = a[i].ea}
                 IN  /\ ~m.truncated /\ Mappable(a[i]) => rows # {}
                     /\ \A t \in rows : t.kind = "strict" /\ \E k \in DOMAIN b : t.to = b[k].ea /\ SameContent(a[i], b[k])
        <3>1. SameEvidence(a[i], b[j])
            BY <2>4, EvidenceIsEqual
        <3>2. 100 \in Nat
            OBVIOUS
        <3>3. /\ \A t \in Range(m.transfers) : t.from = a[i].ea =>
                    t.kind = "strict" /\ \E k \in DOMAIN b : t.to = b[k].ea /\ SameContent(a[i], b[k])
              /\ ~m.truncated /\ Mappable(a[i]) => \E t \in Range(m.transfers) : t.from = a[i].ea
            BY <2>2, <3>1, <3>2, SigMapIsStrict
        <3> HIDE DEF m
        <3> QED BY <3>3, Zenon
    <2> HIDE DEF m
    <2>5. SelfIsRecognised'
        BY <1>1, <2>3, <2>4 DEF SelfIsRecognised, a, b
    <2>6. AnswerFits'
        BY <1>1, <2>2, <2>3, KindsOfAnswers DEF AnswerFits
    <2> QED BY <1>1, <2>3, <2>5, <2>6, OtherTools DEF RequestInv, AnswersAreRight
<1>4. CASE sig_diff_binaries
    <2> DEFINE a == input.a
               b == input.b
               e == fingerprints(a, 64).functions
               d == diff_binary(e, fingerprints(b, 64).functions, 8, 256)
               same == {<<i, i>> : i \in DOMAIN e}
    <2>1. answer'.tool = "diff_binary" /\ answer'.result = d
        BY <1>4 DEF sig_diff_binaries, Reply
    <2>2. input.kind = "binaries" /\ SigList(a)
        BY <1>4, BinariesAreTyped DEF sig_diff_binaries, RequestInv, InputIs
    <2>3. ASSUME a = b, Distinguished(a)
          PROVE  d.pairs = same /\ d.equal = same
        <3>1. 64 \in Nat /\ 8 \in 0..10 /\ 256 \in Nat
            OBVIOUS
        <3>2. SigList(e) /\ Distinguished(e)
            <4> HIDE DEF a
            <4> QED BY <2>2, <2>3, <3>1, ExportedFunctions
        <3>3. d = diff_binary(e, e, 8, 256)
            BY <2>3
        <3> HIDE DEF e, d
        <3> QED BY <3>1, <3>2, <3>3, SelfDiffBinary
    <2> HIDE DEF d
    <2>4. SelfIsRecognised'
        BY <1>1, <2>1, <2>3 DEF SelfIsRecognised
    <2>5. AnswerFits'
        BY <1>1, <2>1, <2>2, KindsOfAnswers DEF AnswerFits
    <2> QED BY <1>1, <2>1, <2>4, <2>5, OtherTools DEF RequestInv, AnswersAreRight
<1>5. ASSUME NEW n \in DiffThresholds, sig_diff(n)
      PROVE  RequestInv'
    <2> DEFINE a == input.a
               b == input.b
               t == Clamp(5, n, 10)
               d == diff_blocks(a, b, t, 4 * 256)
    <2>1. answer'.tool = "diff" /\ answer'.threshold = t /\ answer'.result = d
        BY <1>5 DEF sig_diff, Reply
    <2>2. input.kind = "blocks" /\ Blocks(a) /\ Blocks(b)
        BY <1>5, BlocksAreTyped DEF sig_diff, RequestInv, InputIs
    <2>3. t \in 0..10 /\ 4 * 256 \in Nat
        BY MatchingAssumption DEF Clamp
    <2>4. ~d.truncated => AccountsFor(a, b, t, d.rows)
        <3> HIDE DEF a, b, t
        <3> QED BY <2>2, <2>3, DiffAccounts
    <2> HIDE DEF d, t
    <2>5. DiffAccountsForBlocks'
        BY <1>1, <2>1, <2>4 DEF DiffAccountsForBlocks
    <2>6. AnswerFits'
        BY <1>1, <2>1, <2>2, KindsOfAnswers DEF AnswerFits
    <2> QED BY <1>1, <2>1, <2>5, <2>6, OtherTools DEF RequestInv, AnswersAreRight
<1> QED BY <1>2, <1>3, <1>4, <1>5 DEF MatchingRequest

\* The two descriptions of a round trip agree.
LEMMA RoundTripIsPair ==
    ASSUME NEW code, NEW k
    PROVE  RoundTrip(code, k) <=> pair_is_roundtrip(code, k)
BY DEF RoundTrip, pair_is_roundtrip, operand_text, Memory

\* propose takes the round trips of a function pairwise.
LEMMA JunkPlan ==
    ASSUME NEW f \in Obfuscated
    PROVE  TakesPairs(f.code, propose(f, "T2").operations)
<1> DEFINE code == f.code
           sites == junk_sites(code)
           operations == propose(f, "T2").operations
           taken == {k \in DOMAIN code : \E n \in DOMAIN operations : operations[n].ea = code[k].ea}
           At(k) == Site(code[k].ea, code[k].words + code[k + 1].words)
<1>1. /\ Len(code) \in Nat /\ DOMAIN code = 1..Len(code)
      /\ \A j, k \in DOMAIN code : code[j].ea = code[k].ea => j = k
    BY ObfuscatedAssumption
<1>2. operations = Take(sites, MAX_SITES)
    BY DEF propose
<1> HIDE DEF code
<1>3. PICK S \in SUBSET DOMAIN code :
        /\ Len(sites) \in Nat /\ sites \in Seq({At(k) : k \in S})
        /\ \A k \in S : \E n \in DOMAIN sites : sites[n].ea = code[k].ea
        /\ \A k \in S : pair_is_roundtrip(code, k) /\ k + 1 \notin S
        /\ \A k \in DOMAIN code : pair_is_roundtrip(code, k) => k \in S \/ k - 1 \in S
    BY <1>1, JunkSites, Zenon
<1> HIDE DEF sites, operations
<1>4. /\ \A n \in DOMAIN operations : n \in DOMAIN sites /\ operations[n] = sites[n]
      /\ Len(operations) < MAX_SITES => operations = sites
    BY <1>2, <1>3 DEF Take, MAX_SITES
<1>5. ASSUME NEW n \in DOMAIN sites
      PROVE  \E k \in S : sites[n].ea = code[k].ea
    <2>1. PICK k \in S : sites[n] = At(k)
        BY <1>3
    <2> QED BY <2>1 DEF Site
<1>6. ASSUME NEW k \in taken
      PROVE  k \in S
    <2>1. PICK n \in DOMAIN operations : operations[n].ea = code[k].ea
        OBVIOUS
    <2>2. PICK j \in S : sites[n].ea = code[j].ea
        BY <1>4, <1>5
    <2>3. j = k
        BY <1>1, <1>4, <2>1, <2>2
    <2> QED BY <2>3
<1>7. \A n \in DOMAIN operations : \E k \in taken : operations[n].ea = code[k].ea
    BY <1>4, <1>5, Zenon
<1>8. Len(operations) < MAX_SITES => S \subseteq taken
    BY <1>3, <1>4, Zenon
<1> HIDE DEF taken
<1>9. \A k \in taken : RoundTrip(code, k) /\ k + 1 \notin taken
    BY <1>3, <1>6, RoundTripIsPair, Zenon
<1>10. Len(operations) < MAX_SITES =>
           \A k \in DOMAIN code : RoundTrip(code, k) => k \in taken \/ k - 1 \in taken
    BY <1>3, <1>8, RoundTripIsPair, Zenon
<1> QED BY <1>7, <1>9, <1>10, Zenon DEF TakesPairs, code, taken, operations

\* deob_run, deob_propose and deob_validate answer rightly.
LEMMA DeobfuscationKeeps == RequestInv /\ DeobfuscationRequest => RequestInv'
<1> SUFFICES ASSUME RequestInv, DeobfuscationRequest PROVE RequestInv'
    OBVIOUS
<1>0. InputIs /\ AnswerFits
    BY DEF RequestInv
<1>1. ASSUME NEW n \in {1, 8}, deob_run(n)
      PROVE  RequestInv'
    <2>1. answer'.tool = "deobfuscate" /\ UNCHANGED input
        BY <1>1 DEF deob_run, Reply
    <2>2. answer'.tool \notin DOMAIN AnswersKind
        BY <2>1, KindsOfAnswers
    <2>3. InputIs'
        BY <1>0, <2>1 DEF InputIs
    <2> QED BY <2>2, <2>3, NothingTold DEF RequestInv
<1>2. ASSUME NEW kind \in {"T1", "T2", "T3", "T4"}, deob_propose(kind)
      PROVE  RequestInv'
    <2> DEFINE f == input.function
               plan == propose(f, kind)
    <2>1. answer'.tool = "plan" /\ answer'.plan = plan /\ UNCHANGED input /\ input.kind = "obfuscated"
        BY <1>2 DEF deob_propose, Reply
    <2>2. f \in Obfuscated
        BY <1>0, <2>1 DEF InputIs
    <2>3. plan.kind = kind
        BY DEF propose
    <2>4. JunkIsTakenPairwise'
        <3>1. CASE kind = "T2"
            <4>1. answer'.plan = propose(f, "T2") /\ input'.function = f
                BY <2>1, <3>1
            <4> HIDE DEF f, plan
            <4> QED BY <2>2, <4>1, JunkPlan DEF JunkIsTakenPairwise
        <3>2. CASE kind # "T2"
            BY <2>1, <2>3, <3>2 DEF JunkIsTakenPairwise
        <3> QED BY <3>1, <3>2
    <2> HIDE DEF plan
    <2>5. InputIs' /\ AnswerFits'
        BY <1>0, <2>1, KindsOfAnswers DEF InputIs, AnswerFits
    <2> QED BY <2>1, <2>4, <2>5, OtherTools DEF RequestInv, AnswersAreRight
<1>3. ASSUME NEW x \in References, AddReference(x)
      PROVE  RequestInv'
    <2> DEFINE f == input.function
               refs == input.references
    <2>1. /\ input = [kind |-> "obfuscated", function |-> f, references |-> refs]
          /\ f \in Obfuscated /\ input.kind = "obfuscated"
        BY <1>0, <1>3 DEF AddReference, InputIs
    <2>2. input' = [input EXCEPT !.references = @ \cup {x}] /\ answer' = answer
        BY <1>3 DEF AddReference
    <2> DEFINE new == refs \cup {x}
    <2>3. input' = [kind |-> "obfuscated", function |-> f, references |-> new]
        <3> HIDE DEF f
        <3> QED BY <2>1, <2>2
    <2> HIDE DEF f, new
    <2>4. input'.kind = "obfuscated" /\ input'.function = f /\ input'.references = new
        BY <2>3
    <2>5. InputIs'
        BY <2>1, <2>3, <2>4 DEF InputIs
    <2>6. AnswerFits'
        BY <1>0, <2>1, <2>2, <2>4 DEF AnswerFits
    <2>7. JunkIsTakenPairwise'
        BY <2>2, <2>4 DEF JunkIsTakenPairwise, RequestInv, AnswersAreRight, f
    <2>8. answer.tool \in DOMAIN AnswersKind => AnswersKind[answer.tool] = "obfuscated"
        BY <1>0, <2>1 DEF AnswerFits
    <2>9. answer'.tool \notin {"diff", "identify", "map", "diff_binary", "ssa", "resolve"}
        BY <2>2, <2>8, KindsOfAnswers
    <2> QED BY <2>5, <2>6, <2>7, <2>9, OtherTools DEF RequestInv, AnswersAreRight
<1>4. CASE deob_validate
    <2>1. answer.tool = "plan" /\ answer'.tool = "validated" /\ UNCHANGED input
        BY <1>4 DEF deob_validate
    <2>2. InputIs' /\ AnswerFits'
        BY <1>0, <2>1, KindsOfAnswers DEF InputIs, AnswerFits
    <2> QED BY <2>1, <2>2, OtherTools DEF RequestInv, AnswersAreRight
<1> QED BY <1>1, <1>2, <1>3, <1>4 DEF DeobfuscationRequest

\* wasm_values attaches right constants.
LEMMA ValuesKeep == RequestInv /\ wasm_values => RequestInv'
<1> SUFFICES ASSUME RequestInv, wasm_values PROVE RequestInv'
    OBVIOUS
<1> DEFINE body == input.body
           params == input.params
           s == analyze_values(body, params)
<1>1. answer'.tool = "ssa" /\ answer'.result = s /\ UNCHANGED input /\ input.kind = "body"
    BY DEF wasm_values, Reply
<1>2. body \in Seq(StraightLine) /\ params \in Nat
    <2>1. <<body, params>> \in WasmBodies
        BY <1>1 DEF RequestInv, InputIs
    <2>2. <<body, params>> \in Seq(StraightLine) \X Nat
        BY <2>1, WasmAssumption
    <2> HIDE DEF body, params
    <2> QED BY <2>2
<1>3. ASSUME ReadsAssigned(body, params),
             NEW arguments \in [0..(params - 1) -> I32], Run(body, arguments).defined
      PROVE  LET m == Run(body, arguments)
             IN  /\ Len(s.stack) = Len(m.stack)
                 /\ \A k \in DOMAIN m.stack : \A c \in s.values[s.stack[k]].constant :
                       Modulo(c) = m.stack[k]
    <2> HIDE DEF body, params
    <2> QED BY <1>2, <1>3, AnalysisIsRight
<1> HIDE DEF s
<1>4. WasmConstantsAreRight'
    BY <1>1, <1>3 DEF WasmConstantsAreRight
<1>5. InputIs' /\ AnswerFits'
    BY <1>1, KindsOfAnswers DEF RequestInv, InputIs, AnswerFits
<1> QED BY <1>1, <1>4, <1>5, OtherTools DEF RequestInv, AnswersAreRight

\* The cache is no part of what a host must be.
LEMMA CacheDoesNotMatter ==
    ASSUME NEW host, HostType(host), NEW cache, NEW new, new = [host EXCEPT !.cache = cache]
    PROVE  /\ HostType(new)
           /\ \A req, i : BestInstall(host, req, i) => BestInstall(new, req, i)
           /\ \A req, e : NothingWouldDo(host, req, e) => NothingWouldDo(new, req, e)
<1>1. new = [version |-> host.version, children |-> host.children, parent |-> host.parent,
             explicit |-> host.explicit, env |-> host.env, config |-> host.config,
             profile |-> host.profile, native |-> host.native, common |-> host.common,
             hints |-> host.hints, cache |-> cache]
    BY DEF HostType
<1>2. /\ new.version = host.version /\ new.children = host.children /\ new.parent = host.parent
      /\ new.explicit = host.explicit /\ new.env = host.env /\ new.config = host.config
      /\ new.profile = host.profile /\ new.native = host.native /\ new.common = host.common
      /\ new.hints = host.hints /\ new.cache = cache
    BY <1>1
<1>3. HostType(new)
    BY <1>1, <1>2 DEF HostType
<1>4. /\ Overruled(new) = Overruled(host) /\ Scannable(new) = Scannable(host)
      /\ \A req, d : Would(new, req, d) = Would(host, req, d)
    BY <1>2 DEF Overruled, Scannable, Inside, Would
<1>5. Named(new) = Named(host)
    BY <1>2 DEF Named, Above, Parents
<1>6. \A req, i : BestInstall(host, req, i) => BestInstall(new, req, i)
    BY <1>2, <1>4, <1>5 DEF BestInstall
<1>7. \A req, e : NothingWouldDo(host, req, e) => NothingWouldDo(new, req, e)
    BY <1>2, <1>4, <1>5 DEF NothingWouldDo
<1> QED BY <1>3, <1>6, <1>7

\* Nor does it matter which installs are left.
LEMMA FewerInstalls ==
    ASSUME NEW host, HostType(host), NEW version, \A d \in DOMAIN version : version[d] \in Nat,
           NEW new, new = [host EXCEPT !.version = version]
    PROVE  HostType(new)
<1>1. new = [version |-> version, children |-> host.children, parent |-> host.parent,
             explicit |-> host.explicit, env |-> host.env, config |-> host.config,
             profile |-> host.profile, native |-> host.native, common |-> host.common,
             hints |-> host.hints, cache |-> host.cache]
    BY DEF HostType
<1>2. /\ new.version = version /\ new.children = host.children /\ new.parent = host.parent
      /\ new.explicit = host.explicit /\ new.env = host.env /\ new.config = host.config
      /\ new.profile = host.profile /\ new.native = host.native /\ new.common = host.common
      /\ new.hints = host.hints /\ new.cache = host.cache
    BY <1>1
<1> QED BY <1>1, <1>2 DEF HostType

\* resolve, an uninstallation and the ageing of the cached scan.
LEMMA HostKeeps == RequestInv /\ HostRequest => RequestInv'
<1> SUFFICES ASSUME RequestInv, HostRequest PROVE RequestInv'
    OBVIOUS
<1> DEFINE host == input.host
<1>1. input.kind = "host" /\ input = [kind |-> "host", host |-> host] /\ HostType(host)
    <2>1. input.kind = "host"
        BY DEF HostRequest, resolve_ida, Uninstall, ScanAges
    <2> QED BY <2>1 DEF RequestInv, InputIs
<1>2. ASSUME NEW new, HostType(new), input' = [kind |-> "host", host |-> new]
      PROVE  InputIs' /\ input'.host = new /\ input'.kind = "host"
    <2>1. input'.kind = "host" /\ input'.host = new
        BY <1>2
    <2>2. InputIs'
        BY <1>2, <2>1 DEF InputIs
    <2> QED BY <2>1, <2>2
<1>3. ASSUME NEW req \in Requirements, resolve_ida(req)
      PROVE  RequestInv'
    <2> DEFINE r == resolve_with(host, req)
               cache == IF ScansDrives(host) THEN CacheAfter(host) ELSE host.cache
               new == [host EXCEPT !.cache = cache]
    <2>1. answer'.tool = "resolve" /\ answer'.request = req /\ answer'.result = r
        BY <1>3 DEF resolve_ida
    <2>2. input' = [input EXCEPT !.host.cache =
                       IF ScansDrives(input.host) THEN CacheAfter(input.host) ELSE @]
        BY <1>3 DEF resolve_ida
    <2>3. input' = [input EXCEPT !.host = new]
        BY <2>2
    <2> HIDE DEF host, cache, new, r
    <2>4. input' = [kind |-> "host", host |-> new]
        BY <1>1, <2>3
    <2>5. /\ HostType(new)
          /\ \A i : BestInstall(host, req, i) => BestInstall(new, req, i)
          /\ \A e : NothingWouldDo(host, req, e) => NothingWouldDo(new, req, e)
        BY <1>1, CacheDoesNotMatter DEF new
    <2>6. InputIs' /\ input'.host = new /\ input'.kind = "host"
        BY <1>2, <2>4, <2>5
    <2>7. IF r.ok THEN BestInstall(host, req, r.install) ELSE NothingWouldDo(host, req, r.error)
        BY <1>1, ResolveIsBest DEF r
    <2>8. DiscoveryFindsBest'
        BY <2>1, <2>5, <2>6, <2>7 DEF DiscoveryFindsBest
    <2>9. AnswerFits'
        BY <2>1, <2>6, KindsOfAnswers DEF AnswerFits
    <2> QED BY <2>1, <2>6, <2>8, <2>9, OtherTools DEF RequestInv, AnswersAreRight
<1>4. ASSUME Uninstall \/ ScanAges
      PROVE  answer'.tool \notin DOMAIN AnswersKind
    BY <1>4, KindsOfAnswers DEF Uninstall, ScanAges, NoAnswer
<1>5. CASE Uninstall
    <2>1. PICK d \in DOMAIN host.version :
             input' = [input EXCEPT !.host.version = [x \in DOMAIN @ \ {d} |-> @[x]]]
        BY <1>5, Zenon DEF Uninstall
    <2> DEFINE version == [x \in DOMAIN host.version \ {d} |-> host.version[x]]
               new == [host EXCEPT !.version = version]
    <2>2. input' = [input EXCEPT !.host = new]
        BY <2>1
    <2>3. \A x \in DOMAIN version : version[x] \in Nat
        BY <1>1 DEF HostType
    <2> HIDE DEF host, version, new
    <2>4. input' = [kind |-> "host", host |-> new]
        BY <1>1, <2>2
    <2>5. HostType(new)
        BY <1>1, <2>3, FewerInstalls DEF new
    <2> QED BY <1>2, <1>4, <1>5, <2>4, <2>5, NothingTold DEF RequestInv
<1>6. CASE ScanAges
    <2> DEFINE cache == {[e EXCEPT !.fresh = FALSE] : e \in host.cache}
               new == [host EXCEPT !.cache = cache]
    <2>1. input' = [input EXCEPT !.host.cache = {[e EXCEPT !.fresh = FALSE] : e \in @}]
        BY <1>6 DEF ScanAges
    <2>2. input' = [input EXCEPT !.host = new]
        BY <2>1
    <2> HIDE DEF host, cache, new
    <2>3. input' = [kind |-> "host", host |-> new]
        BY <1>1, <2>2
    <2>4. HostType(new)
        BY <1>1, CacheDoesNotMatter, Zenon DEF new
    <2> QED BY <1>2, <1>4, <1>6, <2>3, <2>4, NothingTold DEF RequestInv
<1> QED BY <1>3, <1>5, <1>6 DEF HostRequest

\* Every step of the requests keeps the invariant.
LEMMA RequestStep == RequestInv /\ [RequestNext]_vars => RequestInv'
<1> SUFFICES ASSUME RequestInv, [RequestNext]_vars PROVE RequestInv'
    OBVIOUS
<1>1. CASE OpenRequest
    BY <1>1, OpenKeeps
<1>2. CASE MatchingRequest
    BY <1>2, MatchingKeeps
<1>3. CASE DeobfuscationRequest
    BY <1>3, DeobfuscationKeeps
<1>4. CASE wasm_values
    BY <1>4, ValuesKeep
<1>5. CASE HostRequest
    BY <1>5, HostKeeps
<1>6. CASE StoreStep
    BY <1>6, NothingChanged DEF StoreStep
<1>7. CASE Read \/ Close
    <2>1. answer' = NoAnswer
        BY <1>7 DEF Read, Close
    <2>2. answer'.tool \notin DOMAIN AnswersKind
        BY <2>1, KindsOfAnswers DEF NoAnswer
    <2>3. input' = input \/ input' = Nothing
        BY <1>7 DEF Read, Close
    <2>4. InputIs'
        BY <2>3 DEF RequestInv, InputIs, Nothing
    <2> QED BY <2>2, <2>4, NothingTold DEF RequestInv
<1>8. CASE UNCHANGED vars
    BY <1>8, NothingChanged DEF vars
<1> QED BY <1>1, <1>2, <1>3, <1>4, <1>5, <1>6, <1>7, <1>8 DEF RequestNext

\* Whatever is asked, and in whatever order, RequestInv holds.
THEOREM RequestsAreSafe == RequestSpec => []RequestInv
BY RequestInit, RequestStep, PTL DEF RequestSpec

\* Every block diff that was not cut accounts for all blocks of both functions
\* (diff_blocks of blockdiff.rs), for all block lists and thresholds.
THEOREM DiffsAccountForBlocks == RequestSpec => []DiffAccountsForBlocks
<1>1. RequestInv => DiffAccountsForBlocks
    BY DEF RequestInv, AnswersAreRight
<1> QED BY <1>1, RequestsAreSafe, PTL

\* A function that occurs unchanged in the other binary is recognised by sig_identify,
\* sig_map and sig_diff_binaries, for all binaries.
THEOREM FunctionsAreRecognised == RequestSpec => []SelfIsRecognised
<1>1. RequestInv => SelfIsRecognised
    BY DEF RequestInv, AnswersAreRight
<1> QED BY <1>1, RequestsAreSafe, PTL

\* A plan that propose makes to remove junk takes the round trips of its function
\* pairwise, for all functions however long.
THEOREM JunkPlansTakePairs == RequestSpec => []JunkIsTakenPairwise
<1>1. RequestInv => JunkIsTakenPairwise
    BY DEF RequestInv, AnswersAreRight
<1> QED BY <1>1, RequestsAreSafe, PTL

\* Every constant of analyze_values is what the code computes, for all straight-line
\* bodies, arguments and widths of the integers.
THEOREM ConstantsAreComputed == RequestSpec => []WasmConstantsAreRight
<1>1. RequestInv => WasmConstantsAreRight
    BY DEF RequestInv, AnswersAreRight
<1> QED BY <1>1, RequestsAreSafe, PTL

\* resolve_with selects the best install that is there, whatever was uninstalled since
\* the cached scan, for all hosts.
THEOREM InstallIsBest == RequestSpec => []DiscoveryFindsBest
<1>1. RequestInv => DiscoveryFindsBest
    BY DEF RequestInv, AnswersAreRight
<1> QED BY <1>1, RequestsAreSafe, PTL

\* The result store keeps its promise beside the other requests.
THEOREM RequestsKeepResults == RequestSpec => []StoreKeepsResults
<1>1. Init => StoreInv
    BY StoreInitInv DEF Init
<1>2. ASSUME StoreInv, [RequestNext]_vars
      PROVE  StoreInv'
    <2>1. [StoreNext]_storeVars
        BY <1>2 DEF RequestNext, OpenRequest, OpenBinaries, OpenBlocks, OpenObfuscated, OpenBody,
           OpenHost, OpenResults, Open, MatchingRequest, sig_identify, sig_map, sig_diff_binaries,
           sig_diff, DeobfuscationRequest, deob_run, deob_propose, AddReference, deob_validate,
           wasm_values, HostRequest, resolve_ida, Uninstall, ScanAges, Reply, Read, Close,
           StoreStep, vars
    <2> QED BY <1>2, <2>1, StoreInvStep
<1>3. StoreInv => StoreKeepsResults
    BY DEF StoreInv
<1> QED BY <1>1, <1>2, <1>3, PTL DEF RequestSpec
=============================================================================
