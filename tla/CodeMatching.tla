---------------------------- MODULE CodeMatching ----------------------------
(***************************************************************************)
(* Matching functions and basic blocks of two binaries                     *)
(* (crates/rmcp-worker/src/signatures.rs and blockdiff.rs).                *)
(*                                                                         *)
(* A function is [ea, name, size, imports, strings, constants, callees,    *)
(* callers, blocks]; its name is a number, from 100 on an automatic one.   *)
(* A block [mnemonics, constants, out, in] is what its fingerprint hashes. *)
(* Scores are integers: a similarity of 1.0 is One, which every            *)
(* denominator of the instances divides.                                   *)
(***************************************************************************)
EXTENDS Lists

One == 120

BlockFp == [mnemonics : Nat, constants : Nat, out : Nat, in : Nat]

FunctionSig ==
    [ea : Nat, name : Nat, size : Nat, imports : SUBSET Nat, strings : SUBSET Nat,
     constants : SUBSET Nat, callees : Nat, callers : Nat, blocks : Seq(BlockFp)]

Smaller(m, n) == Min({m, n})
Larger(m, n) == Max({m, n})
Ratio(m, n) == (One * Smaller(m, n)) \div Larger(m, n)

\* Mutant of set_sim: nothing on both sides is not agreement.
set_simOfNothing(S, T) ==
    IF S = {} \/ T = {} THEN One \div 4
    ELSE (One * Cardinality(S \cap T)) \div Cardinality(S \cup T)

\* Nothing on both sides is agreement; on one side only, a quarter.
set_sim(S, T) ==
    IF S = {} /\ T = {} THEN One
    ELSE IF S = {} \/ T = {} THEN One \div 4
    ELSE (One * Cardinality(S \cap T)) \div Cardinality(S \cup T)

size_sim(m, n) == IF Larger(m, n) = 0 THEN One \div 2 ELSE Ratio(m, n)

CountSim(m, n) == IF Larger(m, n) = 0 THEN One ELSE Ratio(m, n)

call_sim(f, g) ==
    (6 * CountSim(f.callees, g.callees) + 4 * CountSim(f.callers, g.callers)) \div 10

similarity(f, g) ==
    [imports   |-> set_sim(f.imports, g.imports),
     strings   |-> set_sim(f.strings, g.strings),
     constants |-> set_sim(f.constants, g.constants),
     calls     |-> call_sim(f, g),
     size      |-> size_sim(f.size, g.size)]

\* In hundredths of One.
overall(s) ==
    30 * s.imports + 25 * s.constants + 20 * s.strings + 15 * s.calls + 10 * s.size

\* Thresholds::default(): the floor is asked of the three content families.
Strict == 85 * One
Relaxed == 60 * One
FamilyFloor == One \div 2

match_kind(s) ==
    IF /\ overall(s) >= Strict
       /\ s.imports >= FamilyFloor
       /\ s.constants >= FamilyFloor
       /\ s.strings >= FamilyFloor
    THEN "strict"
    ELSE IF overall(s) >= Relaxed THEN "relaxed" ELSE "weak"

\* Best score first, ties by address, cut at max_candidates.
identify_function(probe, reference, max_candidates) ==
    LET score(i) == overall(similarity(probe, reference[i]))
        before(i, j) == \/ score(i) > score(j)
                        \/ score(i) = score(j) /\ reference[i].ea < reference[j].ea
        ranked == Take(Sorted(DOMAIN reference, before), max_candidates)
    IN  [k \in DOMAIN ranked |->
            [ea    |-> reference[ranked[k]].ea,
             score |-> score(ranked[k]),
             kind  |-> match_kind(similarity(probe, reference[ranked[k]]))]]

AutoNamed(f) == f.name >= 100

\* The first of the best targets above the relaxed threshold, whoever else it
\* was proposed for.
BestTarget(f, to) ==
    LET score(i) == overall(similarity(f, to[i]))
        good == {i \in DOMAIN to : score(i) >= Relaxed}
        best == {i \in good : \A j \in good : score(j) <= score(i)}
    IN  IF best = {} THEN 0 ELSE Min(best)

\* Small functions without imports or constants are not mapped.
map_functions(from, to, max_transfers) ==
    LET mapped == Ascending({i \in DOMAIN from : /\ \/ from[i].size >= 16
                                                   \/ from[i].imports # {}
                                                   \/ from[i].constants # {}
                                                /\ BestTarget(from[i], to) # 0})
        score(i) == overall(similarity(from[i], to[BestTarget(from[i], to)]))
        rounded(i) == (score(i) + One \div 2) \div One
        before(i, j) == rounded(i) > rounded(j) \/ (rounded(i) = rounded(j) /\ i < j)
        Transfer(f, g) == [from |-> f.ea, to |-> g.ea, kind |-> match_kind(similarity(f, g)),
                           conflict |-> ~AutoNamed(g) /\ g.name # f.name]
        kept == Sorted(Range(Take(mapped, max_transfers)), before)
    IN  [transfers |-> [k \in DOMAIN kept |->
                           Transfer(from[kept[k]], to[BestTarget(from[kept[k]], to)])],
         truncated |-> Len(kept) >= max_transfers]

\* Exported indexes keep the number of calls of a function, the mapping drops it.
mk_idx(sig) == [i \in DOMAIN sig |-> [sig[i] EXCEPT !.callees = 0, !.callers = 0]]

sig_map_from_sigs(from, to, max) == map_functions(mk_idx(from), mk_idx(to), max)

(***************************************************************************)
(* Block diff.  Equal fingerprints are paired first, the last such block   *)
(* of b for the first of a; then the most similar blocks that are left.    *)
(***************************************************************************)
\* In tenths.
block_similarity(x, y) ==
    (IF x.mnemonics = y.mnemonics THEN 6 ELSE 0)
    + (IF x.constants = y.constants THEN 2 ELSE 0)
    + (IF x.out = y.out /\ x.in = y.in THEN 2 ELSE 0)

UsedA(pairs) == {p[1] : p \in pairs}
UsedB(pairs) == {p[2] : p \in pairs}

\* Mutant of PairExact: a block of b is paired twice.
PairExactTwice(a, b, pairs, i) ==
    LET same == {j \in DOMAIN b : b[j] = a[i]}
    IN  IF same = {} THEN pairs ELSE pairs \cup {<<i, Max(same)>>}

PairExact(a, b, pairs, i) ==
    LET same == {j \in DOMAIN b \ UsedB(pairs) : b[j] = a[i]}
    IN  IF same = {} THEN pairs ELSE pairs \cup {<<i, Max(same)>>}

PairSimilar(a, b, threshold, pairs, i) ==
    LET free == {j \in DOMAIN b \ UsedB(pairs) : block_similarity(a[i], b[j]) >= threshold}
        best == {j \in free : \A k \in free :
                    block_similarity(a[i], b[k]) <= block_similarity(a[i], b[j])}
    IN  IF i \in UsedA(pairs) \/ best = {} THEN pairs ELSE pairs \cup {<<i, Min(best)>>}

\* Each pass takes the blocks of a in order.
ExactPairs(a, b) ==
    LET upTo[i \in 0..Len(a)] == IF i = 0 THEN {} ELSE PairExact(a, b, upTo[i - 1], i)
    IN  upTo[Len(a)]

BlockPairs(a, b, threshold) ==
    LET upTo[i \in 0..Len(a)] == IF i = 0 THEN ExactPairs(a, b)
                                 ELSE PairSimilar(a, b, threshold, upTo[i - 1], i)
    IN  upTo[Len(a)]

BlockRows(a, b, pairs) ==
    {[kind |-> IF block_similarity(a[p[1]], b[p[2]]) = 10 THEN "equal" ELSE "modified",
      a |-> p[1], b |-> p[2]] : p \in pairs}
    \cup {[kind |-> "removed", a |-> i, b |-> 0] : i \in DOMAIN a \ UsedA(pairs)}
    \cup {[kind |-> "added", a |-> 0, b |-> j] : j \in DOMAIN b \ UsedB(pairs)}

KindRank == [equal |-> 0, modified |-> 1, removed |-> 2, added |-> 3]

\* By kind, then by the text of the address in a (here of one width, so in the
\* order of a); added blocks have none and stay in the order of b.
RowBefore(r, s) ==
    \/ KindRank[r.kind] < KindRank[s.kind]
    \/ /\ KindRank[r.kind] = KindRank[s.kind]
       /\ r.a < s.a \/ (r.a = s.a /\ r.b < s.b)

\* Counts are taken of the rows that are kept.
diff_blocks(a, b, threshold, max_rows) ==
    LET rows == Sorted(BlockRows(a, b, BlockPairs(a, b, threshold)), RowBefore)
    IN  [rows |-> Take(rows, max_rows), truncated |-> Len(rows) > max_rows]

(***************************************************************************)
(* What sig.fingerprints exports of a binary: its functions of at least 16 *)
(* bytes that are not thunks, largest first.                               *)
(***************************************************************************)
Thunk(f) == f.name = 200

fingerprints(functions, max_functions) ==
    LET chosen == {i \in DOMAIN functions : ~Thunk(functions[i]) /\ functions[i].size >= 16}
        before(i, j) == \/ functions[i].size > functions[j].size
                        \/ functions[i].size = functions[j].size /\ i < j
        order == Take(Sorted(chosen, before), max_functions)
    IN  [functions |-> [k \in DOMAIN order |-> functions[order[k]]],
         truncated |-> Cardinality(chosen) > max_functions]

(***************************************************************************)
(* Binary diff: exact names first, then the best family evidence.  A       *)
(* function of b stays available to every leftover of a.                   *)
(***************************************************************************)
fam_sim(f, g) ==
    30 * set_sim(f.imports, g.imports) + 25 * set_sim(f.constants, g.constants)
    + 25 * set_sim(f.strings, g.strings)
    + 20 * (IF Larger(f.size, g.size) = 0 THEN One ELSE Ratio(f.size, g.size))

\* Of the functions of b that share a name, only the last is ever considered; the
\* first of a takes it.
LastNamed(fb) == {j \in DOMAIN fb : \A k \in DOMAIN fb : fb[k].name = fb[j].name => k <= j}

PairNames(fa, fb) ==
    {p \in (DOMAIN fa) \X LastNamed(fb) :
        /\ fa[p[1]].name = fb[p[2]].name
        /\ \A k \in 1..(p[1] - 1) : fa[k].name # fa[p[1]].name}

\* Leftovers of b are tried in the order of their names.
diff_binary(fa, fb, threshold, max_blocks) ==
    LET named == PairNames(fa, fb)
        leftA == DOMAIN fa \ {p[1] : p \in named}
        leftB == LastNamed(fb) \ {p[2] : p \in named}
        good(i) == {j \in leftB : fam_sim(fa[i], fb[j]) >= Relaxed}
        best(i) == {j \in good(i) : \A k \in good(i) :
                        \/ fam_sim(fa[i], fb[k]) < fam_sim(fa[i], fb[j])
                        \/ /\ fam_sim(fa[i], fb[k]) = fam_sim(fa[i], fb[j])
                           /\ fb[j].name <= fb[k].name}
        pairs == named \cup UNION {{i} \X best(i) : i \in leftA}
        Unchanged(p) ==
            LET d == diff_blocks(fa[p[1]].blocks, fb[p[2]].blocks, threshold, max_blocks * 4)
            IN  \A k \in DOMAIN d.rows : d.rows[k].kind = "equal"
    IN  [pairs |-> pairs, equal |-> {p \in pairs : Unchanged(p)}]
=============================================================================
