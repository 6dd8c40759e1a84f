------------------------- MODULE RequestProperties -------------------------
(***************************************************************************)
(* What the answers of Requests must be, defined from the inputs           *)
(* themselves: the blocks of both functions, an evaluation of a body, the  *)
(* directories a source names.  None of these references uses the          *)
(* algorithm whose answer it judges.                                       *)
(***************************************************************************)
EXTENDS Requests, MatchingReference, StackMachine, DiscoveryReference

(***************************************************************************)
(* Matching.                                                               *)
(***************************************************************************)
\* A block diff whose rows were not cut accounts for every block of both functions:
\* exactly one row each, equal blocks joined as far as they go, nothing paired below
\* the threshold and nothing similar enough left apart.
DiffAccountsForBlocks ==
    answer.tool = "diff" /\ ~answer.result.truncated =>
        AccountsFor(input.a, input.b, answer.threshold, answer.result.rows)

\* A function that occurs unchanged in the other binary, with the same imports, strings,
\* constants, size and numbers of calls, is recognised.  It heads the candidates as a
\* strict match.  It is in the map, strictly and as a function with the same content,
\* unless it is one of the functions the map leaves out as noise or the map says it is
\* truncated, and then too it is never mapped to anything else.  A binary compared
\* with itself has every exported function equal to itself.
SelfIsRecognised ==
    LET Known(f) == \E j \in DOMAIN input.b : FamilyEvidence(input.b[j]) = FamilyEvidence(f)
    IN  /\ answer.tool = "identify" /\ Known(answer.probe) =>
             /\ answer.candidates[1].kind = "strict"
             /\ \E j \in DOMAIN input.b : /\ input.b[j].ea = answer.candidates[1].ea
                                          /\ FamilyEvidence(input.b[j]) = FamilyEvidence(answer.probe)
        /\ answer.tool = "map" => \A i \in DOMAIN input.a : Known(input.a[i]) =>
             LET rows == {t \in Range(answer.result.transfers) : t.from = input.a[i].ea}
             IN  /\ ~answer.result.truncated /\ Mappable(input.a[i]) => rows # {}
                 /\ \A t \in rows : /\ t.kind = "strict"
                                    /\ \E j \in DOMAIN input.b : /\ t.to = input.b[j].ea
                                                                 /\ SameContent(input.a[i], input.b[j])
        /\ answer.tool = "diff_binary" /\ input.a = input.b /\ Distinguished(input.a) =>
             LET same == {<<i, i>> : i \in DOMAIN fingerprints(input.a, 64).functions}
             IN  answer.result.pairs = same /\ answer.result.equal = same

(***************************************************************************)
(* Plans.                                                                  *)
(***************************************************************************)
\* "Redundant store/load round trips on a memory slot": a store or a load, and a load.
RoundTrip(code, k) ==
    LET Shape(i) == <<i.op, [n \in DOMAIN i.args |-> i.args[n][1]]>>
        stores == {<<"mov", <<m, "Reg">> >> : m \in {"Displ", "Phrase"}}
        loads == {<<"mov", <<"Reg", m>> >> : m \in {"Displ", "Phrase"}}
    IN  k + 1 \in DOMAIN code /\ Shape(code[k]) \in stores \cup loads /\ Shape(code[k + 1]) \in loads

\* Each patch starts at a round trip, no two are for round trips that share an
\* instruction, and every round trip has an instruction in one that is patched.
TakesPairs(code, operations) ==
    LET taken == {k \in DOMAIN code : \E n \in DOMAIN operations : operations[n].ea = code[k].ea}
    IN  /\ \A n \in DOMAIN operations : \E k \in taken : operations[n].ea = code[k].ea
        /\ \A k \in taken : RoundTrip(code, k) /\ k + 1 \notin taken
        /\ Len(operations) < MAX_SITES =>
              \A k \in DOMAIN code : RoundTrip(code, k) => k \in taken \/ k - 1 \in taken

\* A plan that removes junk takes the round trips of its function "absorbed pairwise",
\* however many of them follow each other, unless it is full.
JunkIsTakenPairwise ==
    answer.tool = "plan" /\ answer.plan.kind = "T2" =>
        TakesPairs(input.function.code, answer.plan.operations)

(***************************************************************************)
(* WebAssembly.                                                            *)
(***************************************************************************)
\* A constant that analyze_values attaches to a value is the number the code
\* computes there whatever its arguments are, wrapped to the width of an i32, also
\* after the value went through locals.  Bodies that read the initial zero of a local
\* are left out: for such a read analyze_values pushes nothing (ssa.rs:140), its stack
\* is one value short from there on, and a constant may end up at the wrong operator.
WasmConstantsAreRight ==
    answer.tool = "ssa" /\ ReadsAssigned(input.body, input.params) =>
        \A arguments \in [0..(input.params - 1) -> I32] :
            LET m == Run(input.body, arguments)
                s == answer.result
            IN  m.defined =>
                  /\ Len(s.stack) = Len(m.stack)
                  /\ \A k \in DOMAIN m.stack : \A c \in s.values[s.stack[k]].constant :
                        Modulo(c) = m.stack[k]

(***************************************************************************)
(* Discovery.                                                              *)
(***************************************************************************)
\* The rules of resolve (discovery.rs:1089-1092): "explicit requirement must match
\* strictly", "backend-verified installs outrank unverified ones", "otherwise the
\* highest version wins".  The selected install is there now, although the cached
\* scan or a registration may name one that is gone; it satisfies the requirement,
\* has a verified backend when a version was asked for, and no directory that a
\* source names holds a later one that would do.  When nothing is found, nothing is
\* installed where a source or the scan of the drives looks.  Three other comments
\* give the order of the sources instead (discovery.rs:3 "first hit wins for the
\* *default* install", 656-657, 1069-1070): with 9.2 in ida-config.json and 9.4
\* registered natively they name 9.2, and the rules above and the code 9.4.
DiscoveryFindsBest ==
    answer.tool = "resolve" =>
        IF answer.result.ok
        THEN BestInstall(input.host, answer.request, answer.result.install)
        ELSE NothingWouldDo(input.host, answer.request, answer.result.error)
=============================================================================
