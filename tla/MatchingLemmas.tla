-------------------------- MODULE MatchingLemmas ---------------------------
(***************************************************************************)
(* What the block diff and the signatures compute, for all lists of blocks *)
(* and all binaries: the diff accounts for every block, and a function is  *)
(* recognised in another binary.                                           *)
(***************************************************************************)
EXTENDS MatchingReference, AnalysisLemmas

(***************************************************************************)
(* The block diff.                                                         *)
(***************************************************************************)
Blocks(a) == Len(a) \in Nat /\ DOMAIN a = 1..Len(a) /\ \A i \in DOMAIN a : a[i] \in BlockFp

\* No block is in two pairs.
Pairing(a, b, pairs) ==
    /\ pairs \subseteq (DOMAIN a) \X (DOMAIN b)
    /\ \A p, q \in pairs : p[1] = q[1] \/ p[2] = q[2] => p = q

\* block_similarity is a number of tenths, all ten for equal blocks only.
LEMMA SimilarityOfBlocks ==
    ASSUME NEW x \in BlockFp, NEW y \in BlockFp
    PROVE  /\ block_similarity(x, y) \in 0..10
           /\ block_similarity(x, y) = 10 <=> x = y
<1>1. /\ block_similarity(x, y) \in 0..10
      /\ block_similarity(x, y) = 10 <=>
           (x.mnemonics = y.mnemonics /\ x.constants = y.constants /\ x.out = y.out /\ x.in = y.in)
    BY DEF block_similarity
<1>2. (x.mnemonics = y.mnemonics /\ x.constants = y.constants /\ x.out = y.out /\ x.in = y.in)
      <=> x = y
    BY DEF BlockFp
<1> QED BY <1>1, <1>2

\* Neither block is in a pair yet.
Unpaired(a, b, pairs, i, j) ==
    /\ Pairing(a, b, pairs)
    /\ i \in DOMAIN a /\ i \notin UsedA(pairs)
    /\ j \in DOMAIN b /\ j \notin UsedB(pairs)

\* A pair of two blocks that were in none joins the pairs and uses up its two blocks.
LEMMA AddedPair ==
    ASSUME NEW a, NEW b, NEW pairs, NEW i, NEW j, Unpaired(a, b, pairs, i, j),
           NEW new, new = pairs \cup {<<i, j>>}
    PROVE  /\ Pairing(a, b, new)
           /\ UsedA(new) = UsedA(pairs) \cup {i}
           /\ UsedB(new) = UsedB(pairs) \cup {j}
<1>1. \A p \in pairs : p[1] # i /\ p[2] # j
    BY DEF Unpaired, UsedA, UsedB
<1>2. <<i, j>>[1] = i /\ <<i, j>>[2] = j
    OBVIOUS
<1>3. Pairing(a, b, pairs) /\ i \in DOMAIN a /\ j \in DOMAIN b
    BY DEF Unpaired
<1>4. Pairing(a, b, new)
    <2>1. new \subseteq (DOMAIN a) \X (DOMAIN b)
        BY <1>3 DEF Pairing
    <2>2. ASSUME NEW p \in new, NEW q \in new, p[1] = q[1] \/ p[2] = q[2]
          PROVE  p = q
        <3>1. CASE p \in pairs /\ q \in pairs
            BY <1>3, <2>2, <3>1, Zenon DEF Pairing
        <3>2. CASE p \in pairs /\ q = <<i, j>>
            BY <1>1, <1>2, <2>2, <3>2, Zenon
        <3>3. CASE p = <<i, j>> /\ q \in pairs
            BY <1>1, <1>2, <2>2, <3>3, Zenon
        <3> QED BY <3>1, <3>2, <3>3
    <2> QED BY <2>1, <2>2, Zenon DEF Pairing
<1>5. UsedA(new) = UsedA(pairs) \cup {i} /\ UsedB(new) = UsedB(pairs) \cup {j}
    BY <1>2, Zenon DEF UsedA, UsedB
<1> QED BY <1>4, <1>5

\* The first pass after i blocks of a: equal blocks are paired, and an equal pair
\* is missed only when its block of b is taken.
Exact(a, b, pairs, i) ==
    /\ Pairing(a, b, pairs)
    /\ \A p \in pairs : p[1] <= i /\ a[p[1]] = b[p[2]]
    /\ \A h \in 1..i, j \in DOMAIN b : a[h] = b[j] => h \in UsedA(pairs) \/ j \in UsedB(pairs)

\* One block of a in the first pass of diff_blocks.
LEMMA ExactPassStep ==
    ASSUME NEW a, Blocks(a), NEW b, Blocks(b), NEW pairs,
           NEW i \in 1..Len(a), Exact(a, b, pairs, i - 1)
    PROVE  Exact(a, b, PairExact(a, b, pairs, i), i)
<1> DEFINE same == {j \in DOMAIN b \ UsedB(pairs) : b[j] = a[i]}
<1>0. i \in DOMAIN a /\ i \in Int /\ i \notin UsedA(pairs) /\ DOMAIN b = 1..Len(b) /\ Len(b) \in Nat
    BY DEF Blocks, Exact, UsedA
<1>1. CASE same = {}
    <2>1. PairExact(a, b, pairs, i) = pairs
        BY <1>1 DEF PairExact
    <2>2. \A p \in pairs : p[1] <= i
        BY <1>0 DEF Exact, Pairing, Blocks
    <2>3. ASSUME NEW h \in 1..i, NEW j \in DOMAIN b, a[h] = b[j]
          PROVE  h \in UsedA(pairs) \/ j \in UsedB(pairs)
        <3>1. CASE h = i
            BY <3>1, <2>3, <1>1
        <3>2. CASE h \in 1..(i - 1)
            BY <3>2, <2>3 DEF Exact
        <3> QED BY <3>1, <3>2, <1>0
    <2> QED BY <2>1, <2>2, <2>3 DEF Exact
<1>2. CASE same # {}
    <2> DEFINE j0 == Max(same)
               new == pairs \cup {<<i, j0>>}
    <2>1. PairExact(a, b, pairs, i) = new
        BY <1>2 DEF PairExact
    <2>2. j0 \in same
        <3>1. same \subseteq 1..Len(b)
            BY <1>0
        <3> HIDE DEF same
        <3> QED BY <3>1, <1>0, <1>2, FirstAndLast, Zenon
    <2>3. j0 \in DOMAIN b /\ j0 \notin UsedB(pairs) /\ b[j0] = a[i]
        BY <2>2
    <2> HIDE DEF j0
    <2>4. Pairing(a, b, new) /\ UsedA(new) = UsedA(pairs) \cup {i} /\ UsedB(new) = UsedB(pairs) \cup {j0}
        <3>1. Unpaired(a, b, pairs, i, j0)
            BY <1>0, <2>3 DEF Exact, Unpaired
        <3>2. new = pairs \cup {<<i, j0>>}
            OBVIOUS
        <3> HIDE DEF new
        <3> QED BY <3>1, <3>2, AddedPair
    <2>5. ASSUME NEW p \in new
          PROVE  p[1] <= i /\ a[p[1]] = b[p[2]]
        <3>1. CASE p \in pairs
            BY <3>1, <1>0 DEF Exact, Pairing, Blocks
        <3>2. CASE p = <<i, j0>>
            BY <3>2, <2>3, <1>0
        <3> QED BY <3>1, <3>2
    <2>6. ASSUME NEW h \in 1..i, NEW j \in DOMAIN b, a[h] = b[j]
          PROVE  h \in UsedA(new) \/ j \in UsedB(new)
        <3>1. CASE h = i
            BY <3>1, <2>4, Zenon
        <3>2. CASE h \in 1..(i - 1)
            BY <3>2, <2>6, <2>4, Zenon DEF Exact
        <3> QED BY <3>1, <3>2, <1>0
    <2> HIDE DEF new
    <2> QED BY <2>1, <2>4, <2>5, <2>6 DEF Exact
<1> QED BY <1>1, <1>2

\* The second pass after i blocks of a, from the pairs of the first.
Similar(a, b, threshold, exact, pairs, i) ==
    /\ Pairing(a, b, pairs)
    /\ exact \subseteq pairs
    /\ \A p \in pairs : block_similarity(a[p[1]], b[p[2]]) >= threshold
    /\ \A h \in 1..i, j \in DOMAIN b :
          h \in UsedA(pairs) \/ j \in UsedB(pairs) \/ block_similarity(a[h], b[j]) < threshold

\* One block of a in the second pass of diff_blocks: it takes the most similar block of b
\* that is left, or none reaches the threshold.
LEMMA SimilarPassStep ==
    ASSUME NEW a, Blocks(a), NEW b, Blocks(b), NEW threshold \in Nat, NEW exact, NEW pairs,
           NEW i \in 1..Len(a), Similar(a, b, threshold, exact, pairs, i - 1)
    PROVE  Similar(a, b, threshold, exact, PairSimilar(a, b, threshold, pairs, i), i)
<1> DEFINE sim(j) == block_similarity(a[i], b[j])
           free == {j \in DOMAIN b \ UsedB(pairs) : sim(j) >= threshold}
           best == {j \in free : \A k \in free : sim(k) <= sim(j)}
           P == PairSimilar(a, b, threshold, pairs, i)
<1>0. /\ i \in DOMAIN a /\ i \in Int /\ Len(b) \in Nat /\ DOMAIN b = 1..Len(b)
      /\ \A j \in DOMAIN b : sim(j) \in 0..10
    BY SimilarityOfBlocks DEF Blocks
<1>1. CASE i \in UsedA(pairs)
    <2>1. P = pairs
        BY <1>1 DEF PairSimilar
    <2>2. ASSUME NEW h \in 1..i, NEW j \in DOMAIN b
          PROVE  h \in UsedA(pairs) \/ j \in UsedB(pairs) \/ block_similarity(a[h], b[j]) < threshold
        <3>1. CASE h = i
            BY <3>1, <1>1
        <3>2. CASE h \in 1..(i - 1)
            BY <3>2 DEF Similar
        <3> QED BY <3>1, <3>2, <1>0
    <2> QED BY <2>1, <2>2 DEF Similar
<1>2. CASE i \notin UsedA(pairs) /\ best = {}
    <2>1. P = pairs
        BY <1>2 DEF PairSimilar
    <2>2. free = {}
        <3> SUFFICES ASSUME free # {} PROVE FALSE
            OBVIOUS
        <3>1. PICK m \in {sim(j) : j \in free} : \A y \in {sim(j) : j \in free} : y <= m
            <4> DEFINE V == {sim(j) + 1 : j \in free}
            <4>0. \A j \in free : sim(j) \in 0..10
                BY <1>0
            <4>1. V \subseteq 1..11 /\ V # {}
                <5> HIDE DEF sim, free
                <5> QED BY <4>0
            <4> HIDE DEF V
            <4>2. Max(V) \in V /\ \A y \in V : y <= Max(V)
                BY <4>1, FirstAndLast, Zenon
            <4>3. PICK j \in free : Max(V) = sim(j) + 1
                BY <4>2, Zenon DEF V
            <4>4. ASSUME NEW k \in free
                  PROVE  sim(k) <= sim(j)
                <5>1. sim(k) + 1 \in V
                    BY DEF V
                <5>2. sim(k) + 1 <= sim(j) + 1 /\ sim(k) \in Int /\ sim(j) \in Int
                    BY <5>1, <4>2, <4>3, <1>0
                <5> QED BY <5>2
            <4> QED BY <4>4, Zenon
        <3>2. PICK j \in free : m = sim(j)
            BY <3>1
        <3>3. j \in best
            BY <3>1, <3>2
        <3> QED BY <3>3, <1>2
    <2>3. ASSUME NEW h \in 1..i, NEW j \in DOMAIN b
          PROVE  h \in UsedA(pairs) \/ j \in UsedB(pairs) \/ block_similarity(a[h], b[j]) < threshold
        <3>1. CASE h = i
            BY <3>1, <2>2, <1>0
        <3>2. CASE h \in 1..(i - 1)
            BY <3>2 DEF Similar
        <3> QED BY <3>1, <3>2, <1>0
    <2> QED BY <2>1, <2>3 DEF Similar
<1>3. CASE i \notin UsedA(pairs) /\ best # {}
    <2> DEFINE j0 == Min(best)
               new == pairs \cup {<<i, j0>>}
    <2>1. P = new
        BY <1>3 DEF PairSimilar
    <2>2. j0 \in best
        <3>1. best \subseteq 1..Len(b)
            BY <1>0
        <3> HIDE DEF best
        <3> QED BY <3>1, <1>0, <1>3, FirstAndLast, Zenon
    <2>3. j0 \in DOMAIN b /\ j0 \notin UsedB(pairs) /\ sim(j0) >= threshold
        BY <2>2
    <2> HIDE DEF j0
    <2>4. Pairing(a, b, new) /\ UsedA(new) = UsedA(pairs) \cup {i} /\ UsedB(new) = UsedB(pairs) \cup {j0}
        <3>1. Unpaired(a, b, pairs, i, j0)
            BY <1>0, <1>3, <2>3 DEF Similar, Unpaired
        <3>2. new = pairs \cup {<<i, j0>>}
            OBVIOUS
        <3> HIDE DEF new, sim, free, best
        <3> QED BY <3>1, <3>2, AddedPair
    <2>5. ASSUME NEW p \in new
          PROVE  block_similarity(a[p[1]], b[p[2]]) >= threshold
        <3>1. CASE p \in pairs
            BY <3>1 DEF Similar
        <3>2. CASE p = <<i, j0>>
            BY <3>2, <2>3
        <3> QED BY <3>1, <3>2
    <2>6. ASSUME NEW h \in 1..i, NEW j \in DOMAIN b
          PROVE  h \in UsedA(new) \/ j \in UsedB(new) \/ block_similarity(a[h], b[j]) < threshold
        <3>1. CASE h = i
            BY <3>1, <2>4, Zenon
        <3>2. CASE h \in 1..(i - 1)
            BY <3>2, <2>4, Zenon DEF Similar
        <3> QED BY <3>1, <3>2, <1>0
    <2>7. exact \subseteq new
        BY DEF Similar
    <2> HIDE DEF new
    <2> QED BY <2>1, <2>4, <2>5, <2>6, <2>7 DEF Similar
<1> QED BY <1>1, <1>2, <1>3

\* The first pass over all of a.
LEMMA ExactPassResult ==
    ASSUME NEW a, Blocks(a), NEW b, Blocks(b)
    PROVE  Exact(a, b, ExactPairs(a, b), Len(a))
<1> DEFINE N == Len(a)
           none == {}
           Step(pairs, i) == PairExact(a, b, pairs, i)
           Is(g, n) == g = [i \in 0..n |-> IF i = 0 THEN none ELSE Step(g[i - 1], i)]
           X == {n \in Nat : \E g : Is(g, n)}
<1>0. N \in Nat
    BY DEF Blocks
<1>1. 0 \in X
    <2> DEFINE g == [i \in 0..0 |-> none]
    <2>1. \A i \in 0..0 : i = 0 /\ g[i] = none
        OBVIOUS
    <2> HIDE DEF Step, none
    <2>2. Is(g, 0)
        BY <2>1
    <2> HIDE DEF g, Is
    <2> QED BY <2>2
<1>2. ASSUME NEW n \in Nat, n \in X
      PROVE  n + 1 \in X
    <2>1. PICK g : Is(g, n)
        BY <1>2
    <2> DEFINE h == [i \in 0..(n + 1) |-> IF i = n + 1 THEN Step(g[n], n + 1) ELSE g[i]]
    <2>2. ASSUME NEW i \in 0..(n + 1)
          PROVE  h[i] = IF i = 0 THEN none ELSE Step(h[i - 1], i)
        <3> HIDE DEF Step, none
        <3>1. CASE i = n + 1
            BY <3>1
        <3>2. CASE i \in 0..n
            BY <3>2, <2>1
        <3> QED BY <3>1, <3>2
    <2> HIDE DEF Step, none
    <2>3. Is(h, n + 1)
        BY <2>2
    <2> HIDE DEF h, Is
    <2> QED BY <2>3
<1>3. \E g : Is(g, N)
    <2>1. N \in X
        <3> HIDE DEF X
        <3> QED BY <1>0, <1>1, <1>2, SetInduction
    <2> QED BY <2>1
<1> DEFINE upTo == CHOOSE g : Is(g, N)
<1>4. Is(upTo, N)
    BY <1>3, Zenon
<1>5. ExactPairs(a, b) = upTo[N]
    BY DEF ExactPairs
<1> HIDE DEF upTo
<1>6. upTo[0] = none /\ \A n \in 0..(N - 1) : upTo[n + 1] = Step(upTo[n], n + 1)
    <2> HIDE DEF Step, none
    <2> QED BY <1>0, <1>4
<1> DEFINE Y == {n \in Nat : n <= N => Exact(a, b, upTo[n], n)}
<1>7. 0 \in Y
    BY <1>6 DEF Exact, Pairing
<1>8. ASSUME NEW n \in Nat, n \in Y
      PROVE  n + 1 \in Y
    <2> SUFFICES ASSUME n + 1 <= N PROVE Exact(a, b, upTo[n + 1], n + 1)
        OBVIOUS
    <2>1. n + 1 \in 1..N /\ n \in 0..(N - 1) /\ (n + 1) - 1 = n /\ n <= N
        BY <1>0
    <2>2. Exact(a, b, upTo[n], (n + 1) - 1)
        BY <1>8, <2>1
    <2>3. upTo[n + 1] = PairExact(a, b, upTo[n], n + 1)
        BY <1>6, <2>1
    <2> QED BY <2>1, <2>2, <2>3, ExactPassStep
<1>9. N \in Y
    <2> HIDE DEF Y
    <2> QED BY <1>0, <1>7, <1>8, SetInduction
<1> QED BY <1>5, <1>9

\* Both passes.
LEMMA BlockPairsResult ==
    ASSUME NEW a, Blocks(a), NEW b, Blocks(b), NEW threshold \in 0..10
    PROVE  Similar(a, b, threshold, ExactPairs(a, b), BlockPairs(a, b, threshold), Len(a))
<1> DEFINE N == Len(a)
           exact == ExactPairs(a, b)
           Step(pairs, i) == PairSimilar(a, b, threshold, pairs, i)
           Is(g, n) == g = [i \in 0..n |-> IF i = 0 THEN exact ELSE Step(g[i - 1], i)]
           X == {n \in Nat : \E g : Is(g, n)}
<1>0. N \in Nat
    BY DEF Blocks
<1>1. 0 \in X
    <2> DEFINE g == [i \in 0..0 |-> exact]
    <2>1. \A i \in 0..0 : i = 0 /\ g[i] = exact
        OBVIOUS
    <2> HIDE DEF Step, exact
    <2>2. Is(g, 0)
        BY <2>1
    <2> HIDE DEF g, Is
    <2> QED BY <2>2
<1>2. ASSUME NEW n \in Nat, n \in X
      PROVE  n + 1 \in X
    <2>1. PICK g : Is(g, n)
        BY <1>2
    <2> DEFINE h == [i \in 0..(n + 1) |-> IF i = n + 1 THEN Step(g[n], n + 1) ELSE g[i]]
    <2>2. ASSUME NEW i \in 0..(n + 1)
          PROVE  h[i] = IF i = 0 THEN exact ELSE Step(h[i - 1], i)
        <3> HIDE DEF Step, exact
        <3>1. CASE i = n + 1
            BY <3>1
        <3>2. CASE i \in 0..n
            BY <3>2, <2>1
        <3> QED BY <3>1, <3>2
    <2> HIDE DEF Step, exact
    <2>3. Is(h, n + 1)
        BY <2>2
    <2> HIDE DEF h, Is
    <2> QED BY <2>3
<1>3. \E g : Is(g, N)
    <2>1. N \in X
        <3> HIDE DEF X
        <3> QED BY <1>0, <1>1, <1>2, SetInduction
    <2> QED BY <2>1
<1> DEFINE upTo == CHOOSE g : Is(g, N)
<1>4. Is(upTo, N)
    BY <1>3
<1>5. BlockPairs(a, b, threshold) = upTo[N]
    BY DEF BlockPairs
<1> HIDE DEF upTo, exact
<1>6. upTo[0] = exact /\ \A n \in 0..(N - 1) : upTo[n + 1] = Step(upTo[n], n + 1)
    <2> HIDE DEF Step
    <2> QED BY <1>0, <1>4
<1> DEFINE Y == {n \in Nat : n <= N => Similar(a, b, threshold, exact, upTo[n], n)}
<1>7. 0 \in Y
    <2>1. Exact(a, b, exact, N)
        BY ExactPassResult DEF exact
    <2>2. ASSUME NEW p \in exact
          PROVE  block_similarity(a[p[1]], b[p[2]]) >= threshold
        <3>1. p[1] \in DOMAIN a /\ p[2] \in DOMAIN b /\ a[p[1]] = b[p[2]]
            BY <2>1 DEF Exact, Pairing
        <3>2. a[p[1]] \in BlockFp /\ b[p[2]] \in BlockFp
            BY <3>1 DEF Blocks
        <3>3. block_similarity(a[p[1]], b[p[2]]) = 10
            BY <3>1, <3>2, SimilarityOfBlocks
        <3> QED BY <3>3
    <2>3. Pairing(a, b, exact)
        BY <2>1 DEF Exact
    <2> QED BY <1>6, <2>2, <2>3 DEF Similar
<1>8. ASSUME NEW n \in Nat, n \in Y
      PROVE  n + 1 \in Y
    <2> SUFFICES ASSUME n + 1 <= N PROVE Similar(a, b, threshold, exact, upTo[n + 1], n + 1)
        OBVIOUS
    <2>1. n + 1 \in 1..N /\ n \in 0..(N - 1) /\ (n + 1) - 1 = n /\ n <= N
        BY <1>0
    <2>2. Similar(a, b, threshold, exact, upTo[n], (n + 1) - 1)
        BY <1>8, <2>1
    <2>3. upTo[n + 1] = PairSimilar(a, b, threshold, upTo[n], n + 1)
        BY <1>6, <2>1
    <2> QED BY <2>1, <2>2, <2>3, SimilarPassStep
<1>9. N \in Y
    <2> HIDE DEF Y
    <2> QED BY <1>0, <1>7, <1>8, SetInduction
<1> QED BY <1>5, <1>9 DEF exact

\* Row r stands for a pair, a block of a without one, or a block of b without one.
IsRow(a, b, pairs, r) ==
    \/ /\ <<r.a, r.b>> \in pairs
       /\ r.a \in DOMAIN a /\ r.b \in DOMAIN b
       /\ r.kind = IF block_similarity(a[r.a], b[r.b]) = 10 THEN "equal" ELSE "modified"
    \/ r.kind = "removed" /\ r.a \in DOMAIN a \ UsedA(pairs) /\ r.b = 0
    \/ r.kind = "added" /\ r.b \in DOMAIN b \ UsedB(pairs) /\ r.a = 0

Row == [kind : {"equal", "modified", "removed", "added"}, a : Nat, b : Nat]

\* The rows of a block diff, one for each pair and each block without a partner.
LEMMA RowsAreRows ==
    ASSUME NEW a, Blocks(a), NEW b, Blocks(b), NEW pairs, Pairing(a, b, pairs)
    PROVE  \A r : r \in BlockRows(a, b, pairs) <=> r \in Row /\ IsRow(a, b, pairs, r)
<1>1. ASSUME NEW r \in BlockRows(a, b, pairs)
      PROVE  r \in Row /\ IsRow(a, b, pairs, r)
    <2>1. CASE \E p \in pairs :
                 r = [kind |-> IF block_similarity(a[p[1]], b[p[2]]) = 10 THEN "equal" ELSE "modified",
                      a |-> p[1], b |-> p[2]]
        <3>1. PICK p \in pairs :
                 r = [kind |-> IF block_similarity(a[p[1]], b[p[2]]) = 10 THEN "equal" ELSE "modified",
                      a |-> p[1], b |-> p[2]]
            BY <2>1
        <3>2. p[1] \in DOMAIN a /\ p[2] \in DOMAIN b /\ p = <<p[1], p[2]>>
            BY DEF Pairing
        <3>3. p[1] \in Nat /\ p[2] \in Nat
            BY <3>2 DEF Blocks
        <3>4. r.a = p[1] /\ r.b = p[2] /\ <<r.a, r.b>> \in pairs
              /\ r.kind = IF block_similarity(a[p[1]], b[p[2]]) = 10 THEN "equal" ELSE "modified"
            BY <3>1, <3>2
        <3>5. r \in Row
            BY <3>1, <3>3 DEF Row
        <3> QED BY <3>2, <3>4, <3>5 DEF IsRow
    <2>2. CASE \E i \in DOMAIN a \ UsedA(pairs) : r = [kind |-> "removed", a |-> i, b |-> 0]
        BY <2>2 DEF IsRow, Row, Blocks
    <2>3. CASE \E j \in DOMAIN b \ UsedB(pairs) : r = [kind |-> "added", a |-> 0, b |-> j]
        BY <2>3 DEF IsRow, Row, Blocks
    <2> QED BY <2>1, <2>2, <2>3 DEF BlockRows
<1>2. ASSUME NEW r \in Row, IsRow(a, b, pairs, r)
      PROVE  r \in BlockRows(a, b, pairs)
    <2>0. r = [kind |-> r.kind, a |-> r.a, b |-> r.b]
        BY DEF Row
    <2>1. CASE /\ <<r.a, r.b>> \in pairs
               /\ r.kind = IF block_similarity(a[r.a], b[r.b]) = 10 THEN "equal" ELSE "modified"
        <3>1. PICK p \in pairs : p = <<r.a, r.b>>
            BY <2>1
        <3>2. p[1] = r.a /\ p[2] = r.b
            BY <3>1
        <3>3. r = [kind |-> IF block_similarity(a[p[1]], b[p[2]]) = 10 THEN "equal" ELSE "modified",
                   a |-> p[1], b |-> p[2]]
            BY <2>0, <2>1, <3>2
        <3> QED BY <3>3, Zenon DEF BlockRows
    <2>2. CASE r.kind = "removed" /\ r.a \in DOMAIN a \ UsedA(pairs) /\ r.b = 0
        BY <2>0, <2>2 DEF BlockRows
    <2>3. CASE r.kind = "added" /\ r.b \in DOMAIN b \ UsedB(pairs) /\ r.a = 0
        BY <2>0, <2>3 DEF BlockRows
    <2> QED BY <1>2, <2>1, <2>2, <2>3 DEF IsRow
<1> QED BY <1>1, <1>2

\* The two sides tell the rows of one diff apart.
LEMMA RowsAreDistinct ==
    ASSUME NEW a, Blocks(a), NEW b, Blocks(b), NEW pairs,
           NEW r \in Row, IsRow(a, b, pairs, r), NEW s \in Row, IsRow(a, b, pairs, s),
           r.a = s.a, r.b = s.b
    PROVE  r = s
<1>1. 0 \notin DOMAIN a /\ 0 \notin DOMAIN b
    BY DEF Blocks
<1>2. r.kind = s.kind
    BY <1>1 DEF IsRow
<1> QED BY <1>2 DEF Row

\* A block diff has finitely many rows: each is known by its two sides.
LEMMA RowsAreFinite ==
    ASSUME NEW a, Blocks(a), NEW b, Blocks(b), NEW pairs, Pairing(a, b, pairs)
    PROVE  IsFiniteSet(BlockRows(a, b, pairs))
<1> DEFINE R == BlockRows(a, b, pairs)
           Box == (0..Len(a)) \X (0..Len(b))
           side == [r \in R |-> <<r.a, r.b>>]
<1>1. IsFiniteSet(Box)
    <2>1. IsFiniteSet(0..Len(a)) /\ IsFiniteSet(0..Len(b))
        BY FS_Interval DEF Blocks
    <2> QED BY <2>1, FS_Product
<1>2. ASSUME NEW r \in R
      PROVE  r \in Row /\ IsRow(a, b, pairs, r) /\ r.a \in 0..Len(a) /\ r.b \in 0..Len(b)
    BY RowsAreRows DEF IsRow, Blocks
<1> HIDE DEF R
<1>3. \A r \in R : side[r] \in Box
    BY <1>2
<1>4. ASSUME NEW r \in R, NEW s \in R, side[r] = side[s]
      PROVE  r = s
    <2>1. r.a = s.a /\ r.b = s.b
        BY <1>4
    <2> QED BY <2>1, <1>2, RowsAreDistinct
<1>5. side \in Injection(R, Box)
    <2>1. side \in [R -> Box]
        BY <1>3
    <2> HIDE DEF side, Box
    <2> QED BY <2>1, <1>4 DEF Injection, IsInjective
<1>6. IsFiniteSet(R)
    <2> HIDE DEF side, Box
    <2> QED BY <1>1, <1>5, FS_Injection
<1> QED BY <1>6 DEF R

\* The sort of the rows is a strict total order: no two rows are tied.
LEMMA RowsAreOrdered ==
    ASSUME NEW a, Blocks(a), NEW b, Blocks(b), NEW pairs, Pairing(a, b, pairs)
    PROVE  LET R == BlockRows(a, b, pairs)
           IN  Orders(R, [x \in R |-> {y \in R : RowBefore(y, x)}])
<1> DEFINE R == BlockRows(a, b, pairs)
           lower == [x \in R |-> {y \in R : RowBefore(y, x)}]
<1>1. \A r \in R : r \in Row /\ IsRow(a, b, pairs, r)
    BY RowsAreRows
<1>2. \A x \in R : \A y \in R : y \in lower[x] <=> RowBefore(y, x)
    OBVIOUS
<1>2a. \A x \in R : lower[x] \subseteq R
    OBVIOUS
<1> HIDE DEF R, lower
<1>3. \A r \in R : KindRank[r.kind] \in 0..3 /\ r.a \in Nat /\ r.b \in Nat
    BY <1>1 DEF Row, KindRank
<1>4. \A x \in R : ~RowBefore(x, x)
    BY <1>3 DEF RowBefore
<1>5. ASSUME NEW x \in R, NEW y \in R, x # y
      PROVE  RowBefore(x, y) \/ RowBefore(y, x)
    <2>1. ~(x.a = y.a /\ x.b = y.b)
        BY <1>1, <1>5, RowsAreDistinct
    <2> QED BY <2>1, <1>3 DEF RowBefore
<1>6. ASSUME NEW x \in R, NEW y \in R, NEW z \in R, RowBefore(z, y), RowBefore(y, x)
      PROVE  RowBefore(z, x)
    BY <1>3, <1>6 DEF RowBefore
<1>7. Orders(R, lower)
    <2>1. \A x \in R : lower[x] \subseteq R \ {x}
        BY <1>2, <1>2a, <1>4
    <2>2. \A x, y \in R : x # y => x \in lower[y] \/ y \in lower[x]
        BY <1>2, <1>5
    <2>3. ASSUME NEW x \in R, NEW y \in R, y \in lower[x], NEW z \in lower[y]
          PROVE  z \in lower[x]
        <3>1. z \in R
            BY <1>2a
        <3> QED BY <3>1, <2>3, <1>2, <1>6
    <2> QED BY <2>1, <2>2, <2>3 DEF Orders
<1> QED BY <1>7 DEF R, lower

\* Rows of a pairing that both passes went through.
LEMMA RowsAccountForBlocks ==
    ASSUME NEW a, Blocks(a), NEW b, Blocks(b), NEW threshold \in 0..10, NEW exact, NEW pairs,
           Exact(a, b, exact, Len(a)), Similar(a, b, threshold, exact, pairs, Len(a)),
           NEW rows,
           \A k \in DOMAIN rows : rows[k] \in BlockRows(a, b, pairs),
           \A x \in BlockRows(a, b, pairs) : \E k \in DOMAIN rows : rows[k] = x,
           \A j, k \in DOMAIN rows : rows[j] = rows[k] => j = k
    PROVE  AccountsFor(a, b, threshold, rows)
<1> DEFINE R == BlockRows(a, b, pairs)
<1>0. 0 \notin DOMAIN a /\ 0 \notin DOMAIN b /\ DOMAIN a = 1..Len(a)
    BY DEF Blocks
<1>1. Pairing(a, b, pairs)
    BY DEF Similar
<1>2. \A r : r \in R <=> r \in Row /\ IsRow(a, b, pairs, r)
    BY <1>1, RowsAreRows
<1>3. \A p \in pairs : p[1] \in DOMAIN a /\ p[2] \in DOMAIN b /\ p = <<p[1], p[2]>>
    BY <1>1 DEF Pairing
<1>4. ASSUME NEW p \in pairs
      PROVE  \E r \in R : /\ r.a = p[1] /\ r.b = p[2]
                          /\ r.kind = IF block_similarity(a[p[1]], b[p[2]]) = 10 THEN "equal" ELSE "modified"
    <2> DEFINE kind == IF block_similarity(a[p[1]], b[p[2]]) = 10 THEN "equal" ELSE "modified"
               r == [kind |-> kind, a |-> p[1], b |-> p[2]]
    <2>1. r \in R
        BY Zenon DEF BlockRows
    <2>2. r.a = p[1] /\ r.b = p[2] /\ r.kind = kind
        OBVIOUS
    <2> HIDE DEF r, R
    <2> QED BY <2>1, <2>2
<1>5. ASSUME NEW i \in DOMAIN a
      PROVE  \E r \in R : r.a = i
    <2>1. CASE i \in UsedA(pairs)
        BY <2>1, <1>4 DEF UsedA
    <2>2. CASE i \notin UsedA(pairs)
        <3> DEFINE r == [kind |-> "removed", a |-> i, b |-> 0]
        <3>1. r \in R
            BY <2>2 DEF BlockRows
        <3>2. r.a = i
            OBVIOUS
        <3> HIDE DEF r, R
        <3> QED BY <3>1, <3>2
    <2> QED BY <2>1, <2>2
<1>6. ASSUME NEW j \in DOMAIN b
      PROVE  \E r \in R : r.b = j
    <2>1. CASE j \in UsedB(pairs)
        BY <2>1, <1>4 DEF UsedB
    <2>2. CASE j \notin UsedB(pairs)
        <3> DEFINE r == [kind |-> "added", a |-> 0, b |-> j]
        <3>1. r \in R
            BY <2>2 DEF BlockRows
        <3>2. r.b = j
            OBVIOUS
        <3> HIDE DEF r, R
        <3> QED BY <3>1, <3>2
    <2> QED BY <2>1, <2>2
<1> HIDE DEF R
<1>7. ASSUME NEW r \in R, NEW s \in R, r.a = s.a, r.a \in DOMAIN a
      PROVE  r = s
    <2>1. \A t \in {r, s} : t \in Row /\ IsRow(a, b, pairs, t)
        BY <1>2
    <2>2. \A t \in {r, s} : \/ <<t.a, t.b>> \in pairs
                            \/ t.a \notin UsedA(pairs) /\ t.b = 0
        BY <2>1, <1>0, <1>7 DEF IsRow
    <2>3. \A t \in {r, s} : <<t.a, t.b>> \in pairs => t.a \in UsedA(pairs)
        BY DEF UsedA
    <2>4. <<r.a, r.b>> \in pairs /\ <<s.a, s.b>> \in pairs => r.b = s.b
        <3> SUFFICES ASSUME <<r.a, r.b>> \in pairs, <<s.a, s.b>> \in pairs PROVE r.b = s.b
            OBVIOUS
        <3>1. <<r.a, r.b>> = <<s.a, s.b>>
            BY <1>1, <1>7 DEF Pairing
        <3> QED BY <3>1
    <2>5. r.b = s.b
        BY <2>2, <2>3, <2>4, <1>7
    <2> QED BY <2>1, <2>5, <1>7, RowsAreDistinct
<1>8. ASSUME NEW r \in R, NEW s \in R, r.b = s.b, r.b \in DOMAIN b
      PROVE  r = s
    <2>1. \A t \in {r, s} : t \in Row /\ IsRow(a, b, pairs, t)
        BY <1>2
    <2>2. \A t \in {r, s} : \/ <<t.a, t.b>> \in pairs
                            \/ t.b \notin UsedB(pairs) /\ t.a = 0
        BY <2>1, <1>0, <1>8 DEF IsRow
    <2>3. \A t \in {r, s} : <<t.a, t.b>> \in pairs => t.b \in UsedB(pairs)
        BY DEF UsedB
    <2>4. <<r.a, r.b>> \in pairs /\ <<s.a, s.b>> \in pairs => r.a = s.a
        <3> SUFFICES ASSUME <<r.a, r.b>> \in pairs, <<s.a, s.b>> \in pairs PROVE r.a = s.a
            OBVIOUS
        <3>1. <<r.a, r.b>> = <<s.a, s.b>>
            BY <1>1, <1>8 DEF Pairing
        <3> QED BY <3>1
    <2>5. r.a = s.a
        BY <2>2, <2>3, <2>4, <1>8
    <2> QED BY <2>1, <2>5, <1>8, RowsAreDistinct
<1>9. \A k \in DOMAIN rows : rows[k] \in R /\ rows[k] \in Row /\ IsRow(a, b, pairs, rows[k])
    BY <1>2 DEF R
<1>10. ASSUME NEW i \in DOMAIN a
       PROVE  Cardinality({k \in DOMAIN rows : rows[k].a = i}) = 1
    <2>1. PICK x \in R : x.a = i
        BY <1>5
    <2>2. PICK n \in DOMAIN rows : rows[n] = x
        BY DEF R
    <2>3. ASSUME NEW k \in DOMAIN rows, rows[k].a = i
          PROVE  k = n
        <3>1. rows[k] = rows[n]
            BY <2>1, <2>2, <2>3, <1>9, <1>7
        <3> QED BY <3>1
    <2>4. {k \in DOMAIN rows : rows[k].a = i} = {n}
        BY <2>1, <2>2, <2>3
    <2>5. Cardinality({n}) = 1
        BY FS_Singleton, Zenon
    <2> QED BY <2>4, <2>5, Zenon
<1>11. ASSUME NEW j \in DOMAIN b
       PROVE  Cardinality({k \in DOMAIN rows : rows[k].b = j}) = 1
    <2>1. PICK x \in R : x.b = j
        BY <1>6
    <2>2. PICK n \in DOMAIN rows : rows[n] = x
        BY DEF R
    <2>3. ASSUME NEW k \in DOMAIN rows, rows[k].b = j
          PROVE  k = n
        <3>1. rows[k] = rows[n]
            BY <2>1, <2>2, <2>3, <1>9, <1>8
        <3> QED BY <3>1
    <2>4. {k \in DOMAIN rows : rows[k].b = j} = {n}
        BY <2>1, <2>2, <2>3
    <2>5. Cardinality({n}) = 1
        BY FS_Singleton, Zenon
    <2> QED BY <2>4, <2>5, Zenon
<1>12. ASSUME NEW i \in DOMAIN a, NEW j \in DOMAIN b
       PROVE  /\ block_similarity(a[i], b[j]) \in 0..10
              /\ block_similarity(a[i], b[j]) = 10 <=> a[i] = b[j]
    BY SimilarityOfBlocks DEF Blocks
<1>13. ASSUME NEW k \in DOMAIN rows, rows[k].kind = "equal"
       PROVE  a[rows[k].a] = b[rows[k].b]
    <2>1. /\ rows[k].a \in DOMAIN a /\ rows[k].b \in DOMAIN b
          /\ block_similarity(a[rows[k].a], b[rows[k].b]) = 10
        BY <1>9, <1>13, Zenon DEF IsRow
    <2> QED BY <2>1, <1>12
<1>14. ASSUME NEW k \in DOMAIN rows, rows[k].kind = "modified"
       PROVE  block_similarity(a[rows[k].a], b[rows[k].b]) >= threshold
    <2>1. <<rows[k].a, rows[k].b>> \in pairs
        BY <1>9, <1>14 DEF IsRow
    <2> QED BY <2>1 DEF Similar
<1>15. ASSUME NEW k \in DOMAIN rows, rows[k].kind = "removed",
              NEW l \in DOMAIN rows, rows[l].kind = "added"
       PROVE  block_similarity(a[rows[k].a], b[rows[l].b]) < threshold
    <2>1. rows[k].a \in DOMAIN a \ UsedA(pairs) /\ rows[l].b \in DOMAIN b \ UsedB(pairs)
        BY <1>9, <1>15, Zenon DEF IsRow
    <2> QED BY <2>1, <1>0 DEF Similar
<1>16. ASSUME NEW i \in DOMAIN a, NEW j \in DOMAIN b, a[i] = b[j]
       PROVE  \E k \in DOMAIN rows : rows[k].kind = "equal" /\ (rows[k].a = i \/ rows[k].b = j)
    <2>1. i \in UsedA(exact) \/ j \in UsedB(exact)
        BY <1>0, <1>16 DEF Exact
    <2>2. PICK p \in exact : p[1] = i \/ p[2] = j
        BY <2>1 DEF UsedA, UsedB
    <2>3. p \in pairs /\ a[p[1]] = b[p[2]]
        BY DEF Exact, Similar
    <2>4. block_similarity(a[p[1]], b[p[2]]) = 10
        BY <2>3, <1>3, <1>12
    <2>5. PICK r \in R : r.a = p[1] /\ r.b = p[2] /\ r.kind = "equal"
        BY <2>3, <2>4, <1>4
    <2>6. PICK k \in DOMAIN rows : rows[k] = r
        BY DEF R
    <2> QED BY <2>2, <2>5, <2>6
<1> QED BY <1>10, <1>11, <1>13, <1>14, <1>15, <1>16 DEF AccountsFor

\* diff_blocks accounts for every block of both functions when it does not cut the rows.
LEMMA DiffAccounts ==
    ASSUME NEW a, Blocks(a), NEW b, Blocks(b), NEW threshold \in 0..10, NEW max_rows \in Nat,
           ~diff_blocks(a, b, threshold, max_rows).truncated
    PROVE  AccountsFor(a, b, threshold, diff_blocks(a, b, threshold, max_rows).rows)
<1> DEFINE pairs == BlockPairs(a, b, threshold)
           exact == ExactPairs(a, b)
           R == BlockRows(a, b, pairs)
           lower == [x \in R |-> {y \in R : RowBefore(y, x)}]
           s == Arranged(R, lower)
<1>1. Exact(a, b, exact, Len(a)) /\ Similar(a, b, threshold, exact, pairs, Len(a))
    BY ExactPassResult, BlockPairsResult
<1>2. diff_blocks(a, b, threshold, max_rows) =
          [rows |-> Take(s, max_rows), truncated |-> Len(s) > max_rows]
    BY DEF diff_blocks, Sorted
<1> HIDE DEF pairs, exact
<1>3. Pairing(a, b, pairs)
    BY <1>1 DEF Similar
<1>4. IsFiniteSet(R) /\ Orders(R, lower)
    BY <1>3, RowsAreFinite, RowsAreOrdered
<1> HIDE DEF R, lower
<1>5. /\ s \in Seq(R) /\ Len(s) \in Nat /\ DOMAIN s = 1..Len(s)
      /\ \A k \in DOMAIN s : s[k] \in R
      /\ \A x \in R : \E k \in DOMAIN s : s[k] = x
      /\ \A j, k \in DOMAIN s : s[j] = s[k] => j = k
    BY <1>4, ArrangedIsSorted
<1> HIDE DEF s
<1>6. diff_blocks(a, b, threshold, max_rows).rows = s
    <2>1. ~(Len(s) > max_rows) /\ diff_blocks(a, b, threshold, max_rows).rows = Take(s, max_rows)
        <3> DEFINE d == diff_blocks(a, b, threshold, max_rows)
        <3>1. d = [rows |-> Take(s, max_rows), truncated |-> Len(s) > max_rows] /\ ~d.truncated
            BY <1>2
        <3> HIDE DEF d
        <3>2. d.truncated = (Len(s) > max_rows) /\ d.rows = Take(s, max_rows)
            BY <3>1
        <3> QED BY <3>1, <3>2, Zenon DEF d
    <2>2. Take(s, max_rows) = s
        BY <2>1, <1>5 DEF Take
    <2> QED BY <2>1, <2>2
<1>7. AccountsFor(a, b, threshold, s)
    <2>1. R = BlockRows(a, b, pairs)
        BY DEF R
    <2> QED BY <1>1, <1>5, <2>1, RowsAccountForBlocks
<1> QED BY <1>6, <1>7

\* A function on a finite set V that misses an element of V is not one-to-one.
LEMMA MissedElement ==
    ASSUME NEW V, IsFiniteSet(V), NEW i \in V, NEW f \in [V -> V \ {i}]
    PROVE  \E x, y \in V : x # y /\ f[x] = f[y]
<1>1. IsFiniteSet(V \ {i}) /\ Cardinality(V \ {i}) = Cardinality(V) - 1 /\ Cardinality(V) \in Nat
    BY FS_RemoveElement, FS_CardinalityType
<1>2. Cardinality(V \ {i}) < Cardinality(V)
    BY <1>1
<1> DEFINE W == V \ {i}
<1>3. IsFiniteSet(W) /\ Cardinality(W) < Cardinality(V) /\ f \in [V -> W]
    BY <1>1, <1>2
<1> HIDE DEF W
<1> QED BY <1>3, FS_PigeonHole

\* Against itself, the exact pass leaves no block out: the blocks equal to one that
\* is left out would be paired with too few.
LEMMA SelfPairsAll ==
    ASSUME NEW a, Blocks(a), NEW pairs, Exact(a, a, pairs, Len(a))
    PROVE  \A i \in DOMAIN a : i \in UsedA(pairs) /\ i \in UsedB(pairs)
<1>1. /\ Len(a) \in Nat /\ DOMAIN a = 1..Len(a)
      /\ pairs \subseteq (DOMAIN a) \X (DOMAIN a)
      /\ \A p, q \in pairs : p[1] = q[1] \/ p[2] = q[2] => p = q
      /\ \A p \in pairs : a[p[1]] = a[p[2]]
      /\ \A h, j \in DOMAIN a : a[h] = a[j] => h \in UsedA(pairs) \/ j \in UsedB(pairs)
    BY DEF Blocks, Exact, Pairing
<1>2. ASSUME NEW i \in DOMAIN a
      PROVE  IsFiniteSet({j \in DOMAIN a : a[j] = a[i]})
    <2> DEFINE V == {j \in DOMAIN a : a[j] = a[i]}
    <2>1. V \in SUBSET (1..Len(a))
        BY <1>1
    <2>2. IsFiniteSet(1..Len(a))
        BY <1>1, FS_Interval
    <2> HIDE DEF V
    <2>3. IsFiniteSet(V)
        BY <2>1, <2>2, FS_Subset, Zenon
    <2> QED BY <2>3 DEF V
<1>3. ASSUME NEW i \in DOMAIN a
      PROVE  i \in UsedA(pairs)
    <2> SUFFICES ASSUME i \notin UsedA(pairs) PROVE FALSE
        OBVIOUS
    <2> DEFINE V == {j \in DOMAIN a : a[j] = a[i]}
               f == [j \in V |-> CHOOSE h \in V \ {i} : \E p \in pairs : p[1] = h /\ p[2] = j]
    <2>1. ASSUME NEW j \in V
          PROVE  \E h \in V \ {i} : \E p \in pairs : p[1] = h /\ p[2] = j
        <3>1. PICK p \in pairs : p[2] = j
            BY <1>1 DEF UsedB
        <3>2. p[1] \in DOMAIN a /\ a[p[1]] = a[j] /\ p[1] \in UsedA(pairs)
            BY <1>1, <3>1 DEF UsedA
        <3> QED BY <3>1, <3>2
    <2>2. ASSUME NEW j \in V
          PROVE  f[j] \in V \ {i} /\ \E p \in pairs : p[1] = f[j] /\ p[2] = j
        BY <2>1, Zenon
    <2>3. f \in [V -> V \ {i}]
        BY <2>2
    <2>4. IsFiniteSet(V) /\ i \in V
        BY <1>2
    <2> HIDE DEF f, V
    <2>5. PICK x, y \in V : x # y /\ f[x] = f[y]
        BY <2>3, <2>4, MissedElement
    <2> QED BY <1>1, <2>2, <2>5
<1>4. ASSUME NEW i \in DOMAIN a
      PROVE  i \in UsedB(pairs)
    <2> SUFFICES ASSUME i \notin UsedB(pairs) PROVE FALSE
        OBVIOUS
    <2> DEFINE V == {j \in DOMAIN a : a[j] = a[i]}
               f == [j \in V |-> CHOOSE h \in V \ {i} : \E p \in pairs : p[2] = h /\ p[1] = j]
    <2>1. ASSUME NEW j \in V
          PROVE  \E h \in V \ {i} : \E p \in pairs : p[2] = h /\ p[1] = j
        <3>1. PICK p \in pairs : p[1] = j
            BY <1>3 DEF UsedA
        <3>2. p[2] \in DOMAIN a /\ a[p[2]] = a[j] /\ p[2] \in UsedB(pairs)
            BY <1>1, <3>1 DEF UsedB
        <3> QED BY <3>1, <3>2
    <2>2. ASSUME NEW j \in V
          PROVE  f[j] \in V \ {i} /\ \E p \in pairs : p[2] = f[j] /\ p[1] = j
        BY <2>1, Zenon
    <2>3. f \in [V -> V \ {i}]
        BY <2>2
    <2>4. IsFiniteSet(V) /\ i \in V
        BY <1>2
    <2> HIDE DEF f, V
    <2>5. PICK x, y \in V : x # y /\ f[x] = f[y]
        BY <2>3, <2>4, MissedElement
    <2> QED BY <1>1, <2>2, <2>5
<1> QED BY <1>3, <1>4

\* The rows of a block diff are rows of its pairs, whatever the cut.
LEMMA RowsOfDiff ==
    ASSUME NEW a, Blocks(a), NEW b, Blocks(b), NEW threshold \in 0..10, NEW max_rows \in Nat
    PROVE  LET d == diff_blocks(a, b, threshold, max_rows)
           IN  \A k \in DOMAIN d.rows : d.rows[k] \in BlockRows(a, b, BlockPairs(a, b, threshold))
<1> DEFINE pairs == BlockPairs(a, b, threshold)
           exact == ExactPairs(a, b)
           R == BlockRows(a, b, pairs)
           lower == [x \in R |-> {y \in R : RowBefore(y, x)}]
           s == Arranged(R, lower)
           d == diff_blocks(a, b, threshold, max_rows)
<1>1. Similar(a, b, threshold, exact, pairs, Len(a))
    BY ExactPassResult, BlockPairsResult
<1>2. d = [rows |-> Take(s, max_rows), truncated |-> Len(s) > max_rows]
    BY DEF diff_blocks, Sorted
<1> HIDE DEF pairs, exact, d
<1>3. Pairing(a, b, pairs)
    BY <1>1 DEF Similar
<1>4. IsFiniteSet(R) /\ Orders(R, lower)
    BY <1>3, RowsAreFinite, RowsAreOrdered
<1> HIDE DEF R, lower
<1>5. s \in Seq(R) /\ Len(s) \in Nat
    BY <1>4, ArrangedIsSorted
<1> HIDE DEF s
<1>6. d.rows = Take(s, max_rows)
    BY <1>2
<1>7. \A k \in DOMAIN Take(s, max_rows) : Take(s, max_rows)[k] \in R
    BY <1>5 DEF Take
<1> QED BY <1>6, <1>7 DEF d, R, pairs

\* A function compared with itself has equal rows only.
LEMMA SelfDiffIsEqual ==
    ASSUME NEW a, Blocks(a), NEW threshold \in 0..10, NEW max_rows \in Nat
    PROVE  LET d == diff_blocks(a, a, threshold, max_rows)
           IN  \A k \in DOMAIN d.rows : d.rows[k].kind = "equal"
<1> DEFINE pairs == BlockPairs(a, a, threshold)
           exact == ExactPairs(a, a)
           d == diff_blocks(a, a, threshold, max_rows)
<1>1. Exact(a, a, exact, Len(a)) /\ Similar(a, a, threshold, exact, pairs, Len(a))
    BY ExactPassResult, BlockPairsResult
<1>2. \A k \in DOMAIN d.rows : d.rows[k] \in BlockRows(a, a, pairs)
    BY RowsOfDiff
<1> HIDE DEF pairs, exact, d
<1>3. Pairing(a, a, pairs) /\ exact \subseteq pairs /\ Pairing(a, a, exact)
    BY <1>1 DEF Similar, Exact
<1>4. \A i \in DOMAIN a : i \in UsedA(exact) /\ i \in UsedB(exact)
    BY <1>1, SelfPairsAll
<1>5. ASSUME NEW r \in BlockRows(a, a, pairs)
      PROVE  r.kind = "equal"
    <2>1. r \in Row /\ IsRow(a, a, pairs, r)
        BY <1>3, RowsAreRows
    <2>2. \A i \in DOMAIN a : i \in UsedA(pairs) /\ i \in UsedB(pairs)
        BY <1>3, <1>4 DEF UsedA, UsedB
    <2>3. /\ <<r.a, r.b>> \in pairs /\ r.a \in DOMAIN a /\ r.b \in DOMAIN a
          /\ r.kind = IF block_similarity(a[r.a], a[r.b]) = 10 THEN "equal" ELSE "modified"
        BY <2>1, <2>2 DEF IsRow
    <2>4. PICK p \in exact : p[1] = r.a
        BY <2>3, <1>4 DEF UsedA
    <2>5. p = <<r.a, r.b>>
        BY <2>3, <2>4, <1>3 DEF Pairing
    <2>6. a[r.a] = a[r.b]
        BY <2>4, <2>5, <1>1 DEF Exact
    <2>7. a[r.a] \in BlockFp /\ a[r.b] \in BlockFp
        BY <2>3 DEF Blocks
    <2>8. block_similarity(a[r.a], a[r.b]) = 10
        BY <2>6, <2>7, SimilarityOfBlocks
    <2> QED BY <2>3, <2>8
<1> QED BY <1>2, <1>5 DEF d

(***************************************************************************)
(* Signatures.                                                             *)
(***************************************************************************)
\* The smaller and the larger of two numbers.
LEMMA OrderOfTwo ==
    ASSUME NEW m \in Int, NEW n \in Int
    PROVE  Smaller(m, n) = (IF m <= n THEN m ELSE n) /\ Larger(m, n) = (IF m <= n THEN n ELSE m)
<1> DEFINE least == IF m <= n THEN m ELSE n
           most == IF m <= n THEN n ELSE m
<1>1. least \in {m, n} /\ \A y \in {m, n} : least <= y
    OBVIOUS
<1>2. \A x \in {m, n} : (\A y \in {m, n} : x <= y) => x = least
    OBVIOUS
<1>3. most \in {m, n} /\ \A y \in {m, n} : most >= y
    OBVIOUS
<1>4. \A x \in {m, n} : (\A y \in {m, n} : x >= y) => x = most
    OBVIOUS
<1> QED BY <1>1, <1>2, <1>3, <1>4 DEF Min, Max, Smaller, Larger

\* The part k of n, in parts of One: One only when k is n.
LEMMA PartOfOne ==
    ASSUME NEW k \in Nat, NEW n \in Nat \ {0}, k <= n
    PROVE  /\ (One * k) \div n \in 0..One
           /\ (One * k) \div n = One <=> k = n
           /\ k = 0 => (One * k) \div n = 0
<1> DEFINE x == 120 * k
           d == x \div n
           r == x % n
<1>1. x \in Int
    OBVIOUS
<1>2. d \in Int /\ r \in 0..(n - 1) /\ x = n * d + r
    <2> HIDE DEF x
    <2> QED BY <1>1, Division
<1>3. d >= 0
    <2> HIDE DEF d, r
    <2>1. x >= 0 /\ r < n /\ r \in Int
        BY <1>2
    <2> SUFFICES ASSUME d <= -1 PROVE FALSE
        BY <1>2
    <2>2. n * d <= -n
        BY <1>2
    <2> QED BY <1>2, <2>1, <2>2
<1>4. d <= 120 /\ (d = 120 <=> k = n) /\ (k = 0 => d = 0)
    <2> HIDE DEF d, r
    <2>1. ASSUME d >= 121 PROVE FALSE
        <3>1. n * d >= n * 121
            BY <2>1, <1>2
        <3> QED BY <3>1, <1>2
    <2>2. d <= 120
        BY <2>1, <1>2
    <2>3. d = 120 => k = n
        BY <1>2
    <2>4. ASSUME k = n, d <= 119 PROVE FALSE
        <3>1. n * d <= n * 119
            BY <2>4, <1>2
        <3> QED BY <3>1, <2>4, <1>2
    <2>5. ASSUME k = 0, d >= 1 PROVE FALSE
        <3>1. n * d >= n
            BY <2>5, <1>2
        <3> QED BY <3>1, <2>5, <1>2
    <2> QED BY <1>2, <1>3, <2>2, <2>3, <2>4, <2>5
<1> QED BY <1>2, <1>3, <1>4 DEF One

\* set_sim of two sets is at most One, and One for equal sets only: also when both are empty.
LEMMA SetSimilarity ==
    ASSUME NEW S, IsFiniteSet(S), NEW T, IsFiniteSet(T)
    PROVE  set_sim(S, T) \in 0..One /\ (set_sim(S, T) = One <=> S = T)
<1>1. CASE S = {} /\ T = {}
    BY <1>1 DEF set_sim, One
<1>2. CASE (S = {} /\ T # {}) \/ (S # {} /\ T = {})
    <2>1. set_sim(S, T) = 120 \div 4
        BY <1>2 DEF set_sim, One
    <2> QED BY <1>2, <2>1 DEF One
<1>3. CASE S # {} /\ T # {}
    <2> DEFINE I == S \cap T
               U == S \cup T
               k == Cardinality(I)
               n == Cardinality(U)
    <2>1. IsFiniteSet(U) /\ I \in SUBSET U /\ U # {}
        BY <1>3, FS_Union, Zenon
    <2> HIDE DEF I, U
    <2>2. IsFiniteSet(I) /\ k <= n /\ (n = k => U = I) /\ k \in Nat /\ n \in Nat /\ n # 0
        BY <2>1, FS_Subset, FS_CardinalityType, FS_EmptySet
    <2>3. set_sim(S, T) = (One * k) \div n
        BY <1>3 DEF set_sim, I, U
    <2>4. U = I <=> S = T
        BY DEF I, U
    <2>5. k = n <=> S = T
        BY <2>2, <2>4
    <2> HIDE DEF k, n
    <2> QED BY <2>2, <2>3, <2>5, PartOfOne
<1> QED BY <1>1, <1>2, <1>3

\* CountSim and size_sim are largest for equal counts and sizes, and only for these.
LEMMA CountSimilarity ==
    ASSUME NEW m \in Nat, NEW n \in Nat
    PROVE  /\ CountSim(m, n) \in 0..One
           /\ CountSim(m, n) = One <=> m = n
           /\ size_sim(m, n) \in 0..One
           /\ size_sim(m, n) <= size_sim(m, m)
           /\ size_sim(m, n) = size_sim(m, m) <=> m = n
           /\ size_sim(m, m) >= One \div 2
<1> DEFINE s == IF m <= n THEN m ELSE n
           l == IF m <= n THEN n ELSE m
           q == (One * s) \div l
<1>1. Smaller(m, n) = s /\ Larger(m, n) = l /\ Larger(m, m) = m /\ Smaller(m, m) = m
    BY OrderOfTwo
<1>2. /\ CountSim(m, n) = IF l = 0 THEN One ELSE q
      /\ size_sim(m, n) = IF l = 0 THEN One \div 2 ELSE q
      /\ size_sim(m, m) = IF m = 0 THEN One \div 2 ELSE (One * m) \div m
    BY <1>1 DEF CountSim, size_sim, Ratio
<1>3. ASSUME l # 0
      PROVE  q \in 0..One /\ (q = One <=> s = l) /\ (s = 0 => q = 0)
    <2>1. s \in Nat /\ l \in Nat \ {0} /\ s <= l
        BY <1>3
    <2> HIDE DEF s, l
    <2> QED BY <2>1, PartOfOne
<1>4. m # 0 => (One * m) \div m = One
    BY PartOfOne
<1>5. s = l <=> m = n
    OBVIOUS
<1>6. One = 120 /\ One \div 2 = 60
    BY DEF One
<1>7. (l = 0 => m = 0 /\ n = 0) /\ (m = 0 => s = 0)
    OBVIOUS
<1> HIDE DEF q
<1>8. CASE l = 0
    BY <1>2, <1>6, <1>7, <1>8
<1>9. CASE l # 0 /\ m = 0
    <2>1. q = 0 /\ s = 0
        BY <1>3, <1>7, <1>9
    <2> QED BY <1>2, <1>5, <1>6, <1>9, <2>1
<1>10. CASE l # 0 /\ m # 0
    <2>1. q \in 0..One /\ (q = One <=> m = n) /\ size_sim(m, m) = One
        BY <1>2, <1>3, <1>4, <1>5, <1>10
    <2> QED BY <1>2, <1>6, <1>10, <2>1
<1> QED BY <1>8, <1>9, <1>10

Sig(f) ==
    /\ f \in FunctionSig
    /\ IsFiniteSet(f.imports) /\ IsFiniteSet(f.strings) /\ IsFiniteSet(f.constants)

SameEvidence(f, g) ==
    /\ f.imports = g.imports /\ f.strings = g.strings /\ f.constants = g.constants
    /\ f.callees = g.callees /\ f.callers = g.callers /\ f.size = g.size

\* call_sim is One when both counts of calls agree, and only then.
LEMMA CallSimilarity ==
    ASSUME NEW f, Sig(f), NEW g, Sig(g)
    PROVE  /\ call_sim(f, g) \in 0..One
           /\ call_sim(f, g) = One <=> f.callees = g.callees /\ f.callers = g.callers
<1> DEFINE x == CountSim(f.callees, g.callees)
           y == CountSim(f.callers, g.callers)
<1>1. f.callees \in Nat /\ g.callees \in Nat /\ f.callers \in Nat /\ g.callers \in Nat
    BY DEF Sig, FunctionSig
<1>2. /\ x \in 0..One /\ (x = One <=> f.callees = g.callees)
      /\ y \in 0..One /\ (y = One <=> f.callers = g.callers)
    BY <1>1, CountSimilarity, Zenon
<1>3. call_sim(f, g) = (6 * x + 4 * y) \div 10
    BY DEF call_sim
<1> HIDE DEF x, y
<1>4. x \in 0..120 /\ y \in 0..120 /\ One = 120
    BY <1>2 DEF One
<1>5. (6 * x + 4 * y) \div 10 \in 0..120 /\ ((6 * x + 4 * y) \div 10 = 120 <=> x = 120 /\ y = 120)
    BY <1>4
<1> QED BY <1>2, <1>3, <1>4, <1>5

\* No function is more similar to f than f itself, and those as similar have the same
\* evidence; a function as similar as that is a strict match.
LEMMA MostSimilarIsSame ==
    ASSUME NEW f, Sig(f), NEW g, Sig(g)
    PROVE  /\ overall(similarity(f, g)) \in Nat
           /\ overall(similarity(f, g)) <= overall(similarity(f, f))
           /\ overall(similarity(f, g)) = overall(similarity(f, f)) <=> SameEvidence(f, g)
           /\ SameEvidence(f, g) => match_kind(similarity(f, g)) = "strict"
           /\ SameEvidence(f, g) => overall(similarity(f, g)) >= Relaxed
<1> DEFINE s == similarity(f, g)
           t == similarity(f, f)
<1>1. /\ s.imports = set_sim(f.imports, g.imports) /\ s.strings = set_sim(f.strings, g.strings)
      /\ s.constants = set_sim(f.constants, g.constants)
      /\ s.calls = call_sim(f, g) /\ s.size = size_sim(f.size, g.size)
    BY DEF similarity
<1>2. /\ t.imports = set_sim(f.imports, f.imports) /\ t.strings = set_sim(f.strings, f.strings)
      /\ t.constants = set_sim(f.constants, f.constants)
      /\ t.calls = call_sim(f, f) /\ t.size = size_sim(f.size, f.size)
    BY DEF similarity
<1> HIDE DEF s, t
<1>3. f.size \in Nat /\ g.size \in Nat
    BY DEF Sig, FunctionSig
<1>4. /\ s.imports \in 0..One /\ (s.imports = One <=> f.imports = g.imports)
      /\ s.strings \in 0..One /\ (s.strings = One <=> f.strings = g.strings)
      /\ s.constants \in 0..One /\ (s.constants = One <=> f.constants = g.constants)
    BY <1>1, SetSimilarity DEF Sig
<1>5. t.imports = One /\ t.strings = One /\ t.constants = One
    BY <1>2, SetSimilarity DEF Sig
<1>6. /\ s.calls \in 0..One /\ (s.calls = One <=> f.callees = g.callees /\ f.callers = g.callers)
      /\ t.calls = One
    BY <1>1, <1>2, CallSimilarity
<1>7. /\ s.size \in 0..One /\ s.size <= t.size /\ (s.size = t.size <=> f.size = g.size)
      /\ t.size \in 0..One /\ t.size >= One \div 2
    <2>1. /\ size_sim(f.size, g.size) \in 0..One /\ size_sim(f.size, g.size) <= size_sim(f.size, f.size)
          /\ size_sim(f.size, g.size) = size_sim(f.size, f.size) <=> f.size = g.size
        BY <1>3, CountSimilarity, Zenon
    <2>2. size_sim(f.size, f.size) \in 0..One /\ size_sim(f.size, f.size) >= One \div 2
        BY <1>3, CountSimilarity, Zenon
    <2> QED BY <1>1, <1>2, <2>1, <2>2
<1>8. One = 120 /\ One \div 2 = 60
    BY DEF One
<1>9. /\ overall(s) = 30 * s.imports + 25 * s.constants + 20 * s.strings + 15 * s.calls + 10 * s.size
      /\ overall(t) = 30 * 120 + 25 * 120 + 20 * 120 + 15 * 120 + 10 * t.size
    BY <1>5, <1>6, <1>8 DEF overall
<1>10. /\ overall(s) \in Nat /\ overall(s) <= overall(t)
       /\ overall(s) = overall(t) <=> /\ s.imports = 120 /\ s.constants = 120 /\ s.strings = 120
                                      /\ s.calls = 120 /\ s.size = t.size
    <2> DEFINE i == s.imports
               c == s.constants
               n == s.strings
               k == s.calls
               z == s.size
               y == t.size
               o == overall(s)
               p == overall(t)
    <2>1. /\ i \in 0..120 /\ c \in 0..120 /\ n \in 0..120 /\ k \in 0..120
          /\ z \in 0..120 /\ y \in 0..120 /\ z <= y
        BY <1>4, <1>6, <1>7, <1>8
    <2>2. /\ o = 30 * i + 25 * c + 20 * n + 15 * k + 10 * z
          /\ p = 30 * 120 + 25 * 120 + 20 * 120 + 15 * 120 + 10 * y
        BY <1>9
    <2> HIDE DEF i, c, n, k, z, y, o, p
    <2>3. o \in Nat /\ o <= p
        BY <2>1, <2>2
    <2>4. o = p <=> i = 120 /\ c = 120 /\ n = 120 /\ k = 120 /\ z = y
        BY <2>1, <2>2
    <2> QED BY <2>3, <2>4 DEF i, c, n, k, z, y, o, p
<1>11. overall(s) = overall(t) <=> SameEvidence(f, g)
    BY <1>4, <1>6, <1>7, <1>8, <1>10 DEF SameEvidence
<1>12. SameEvidence(f, g) => overall(s) >= 85 * 120 /\ s.imports = 120 /\ s.constants = 120 /\ s.strings = 120
    BY <1>7, <1>8, <1>9, <1>10, <1>11
<1>13. SameEvidence(f, g) => match_kind(s) = "strict"
    BY <1>8, <1>12 DEF match_kind, Strict, FamilyFloor
<1>14. SameEvidence(f, g) => overall(s) >= Relaxed
    BY <1>8, <1>10, <1>12 DEF Relaxed
<1> QED BY <1>10, <1>11, <1>13, <1>14 DEF s, t

SigList(r) == Len(r) \in Nat /\ DOMAIN r = 1..Len(r) /\ \A i \in DOMAIN r : Sig(r[i])

Apart(r) == \A i, j \in DOMAIN r : r[i].ea = r[j].ea => i = j

\* identify_function puts a function with the same evidence first and calls it strict.
LEMMA IdentifyFindsSelf ==
    ASSUME NEW f, Sig(f), NEW r, SigList(r), Apart(r), NEW max \in Nat \ {0},
           NEW j \in DOMAIN r, SameEvidence(f, r[j])
    PROVE  LET c == identify_function(f, r, max)
           IN  /\ c[1].kind = "strict"
               /\ \E k \in DOMAIN r : r[k].ea = c[1].ea /\ SameEvidence(f, r[k])
<1> DEFINE D == DOMAIN r
           score == [i \in D |-> overall(similarity(f, r[i]))]
           tie == [i \in D |-> r[i].ea]
           lower == [x \in D |-> {y \in D : score[y] > score[x] \/ (score[y] = score[x] /\ tie[y] < tie[x])}]
           s == Arranged(D, lower)
           ranked == Take(s, max)
           Candidate(i) == [ea |-> r[i].ea, score |-> overall(similarity(f, r[i])),
                            kind |-> match_kind(similarity(f, r[i]))]
           c == identify_function(f, r, max)
<1>1. c = [k \in DOMAIN ranked |-> Candidate(ranked[k])]
    <2>1. lower = [x \in D |-> {y \in D : \/ overall(similarity(f, r[y])) > overall(similarity(f, r[x]))
                                         \/ /\ overall(similarity(f, r[y])) = overall(similarity(f, r[x]))
                                            /\ r[y].ea < r[x].ea}]
        OBVIOUS
    <2> HIDE DEF lower
    <2> QED BY <2>1 DEF identify_function, Sorted
<1>2. /\ \A i \in D : score[i] \in Int /\ tie[i] \in Int
      /\ \A x, y \in D : tie[x] = tie[y] => x = y
    <2>1. ASSUME NEW i \in D
          PROVE  score[i] \in Int /\ tie[i] \in Int
        <3>1. Sig(r[i])
            BY DEF SigList
        <3>2. overall(similarity(f, r[i])) \in Nat
            BY <3>1, MostSimilarIsSame
        <3>3. r[i].ea \in Nat
            BY <3>1 DEF Sig, FunctionSig
        <3> QED BY <3>2, <3>3
    <2> QED BY <2>1 DEF Apart
<1>3. Orders(D, lower)
    <2> HIDE DEF score, tie, D
    <2> QED BY <1>2, ScoresOrder
<1>4. IsFiniteSet(D)
    <2>1. Len(r) \in Nat /\ D = 1..Len(r)
        BY DEF SigList
    <2> HIDE DEF D
    <2>2. IsFiniteSet(1..Len(r))
        BY <2>1, FS_Interval
    <2> QED BY <2>1, <2>2
<1>5. /\ s \in Seq(D) /\ Len(s) \in Nat /\ DOMAIN s = 1..Len(s)
      /\ \A k \in DOMAIN s : s[k] \in D
      /\ \A x \in D : \E k \in DOMAIN s : s[k] = x
      /\ \A l, k \in DOMAIN s : l < k => s[l] \in lower[s[k]]
    <2> HIDE DEF lower, D
    <2> QED BY <1>3, <1>4, ArrangedIsSorted
<1> HIDE DEF s
<1>6. PICK k \in DOMAIN s : s[k] = j
    BY <1>5
<1>7. 1 \in DOMAIN s /\ 1 \in DOMAIN ranked /\ ranked[1] = s[1]
    BY <1>5, <1>6 DEF Take
<1>8. s[1] \in D /\ score[s[1]] >= score[j]
    <2>1. s[1] \in D
        BY <1>5, <1>7
    <2>2. CASE k = 1
        BY <2>1, <2>2, <1>2, <1>6
    <2>3. CASE k # 1
        <3>1. s[1] \in lower[j]
            <4>1. 1 < k
                BY <1>5, <2>3
            <4> HIDE DEF lower
            <4> QED BY <1>5, <1>6, <1>7, <4>1
        <3> QED BY <2>1, <3>1, <1>2
    <2> QED BY <2>1, <2>2, <2>3
<1> DEFINE h == s[1]
<1>9. Sig(r[h]) /\ Sig(r[j])
    BY <1>8 DEF SigList
<1>10. overall(similarity(f, r[h])) >= overall(similarity(f, r[j]))
    BY <1>8
<1> HIDE DEF h, c, ranked
<1>11. SameEvidence(f, r[h])
    <2>1. /\ overall(similarity(f, r[h])) \in Nat
          /\ overall(similarity(f, r[h])) <= overall(similarity(f, f))
          /\ overall(similarity(f, r[h])) = overall(similarity(f, f)) <=> SameEvidence(f, r[h])
        BY <1>9, MostSimilarIsSame
    <2>2. overall(similarity(f, r[j])) = overall(similarity(f, f)) /\ overall(similarity(f, r[j])) \in Nat
        BY <1>9, MostSimilarIsSame
    <2> QED BY <1>10, <2>1, <2>2
<1>12. match_kind(similarity(f, r[h])) = "strict"
    BY <1>9, <1>11, MostSimilarIsSame
<1>13. c[1] = Candidate(h)
    BY <1>1, <1>7 DEF h
<1>14. c[1].kind = "strict" /\ c[1].ea = r[h].ea
    BY <1>12, <1>13
<1> QED BY <1>8, <1>11, <1>14 DEF h, c

\* A function that has its equal in the other binary has a best target, which is a
\* strict match and as equal to it.
LEMMA BestTargetIsSame ==
    ASSUME NEW f, Sig(f), NEW to, SigList(to)
    PROVE  /\ BestTarget(f, to) # 0 => BestTarget(f, to) \in DOMAIN to
           /\ \A j \in DOMAIN to : SameEvidence(f, to[j]) =>
                 /\ BestTarget(f, to) # 0
                 /\ SameEvidence(f, to[BestTarget(f, to)])
                 /\ match_kind(similarity(f, to[BestTarget(f, to)])) = "strict"
<1> DEFINE score(i) == overall(similarity(f, to[i]))
           good == {i \in DOMAIN to : score(i) >= Relaxed}
           best == {i \in good : \A j \in good : score(j) <= score(i)}
           b == BestTarget(f, to)
<1>1. b = IF best = {} THEN 0 ELSE Min(best)
    BY DEF BestTarget
<1>2. Len(to) \in Nat /\ DOMAIN to = 1..Len(to) /\ best \subseteq 1..Len(to)
    BY DEF SigList
<1>3. best # {} => b \in best
    <2> HIDE DEF best, b
    <2> QED BY <1>1, <1>2, FirstAndLast, Zenon
<1>4. best # {} => b \in DOMAIN to /\ b # 0 /\ \A j \in good : score(j) <= score(b)
    <2> HIDE DEF b
    <2> QED BY <1>2, <1>3
<1>5. b # 0 => b \in DOMAIN to
    <2> HIDE DEF best, b
    <2> QED BY <1>1, <1>4, Zenon
<1> HIDE DEF b
<1>6. ASSUME NEW j \in DOMAIN to, SameEvidence(f, to[j])
      PROVE  b # 0 /\ SameEvidence(f, to[b]) /\ match_kind(similarity(f, to[b])) = "strict"
    <2>1. Sig(to[j])
        BY DEF SigList
    <2>2. score(j) >= Relaxed /\ score(j) = overall(similarity(f, f)) /\ score(j) \in Nat
        BY <1>6, <2>1, MostSimilarIsSame
    <2>3. \A i \in DOMAIN to : score(i) \in Nat /\ score(i) <= score(j)
        <3>1. \A i \in DOMAIN to : Sig(to[i])
            BY DEF SigList
        <3> QED BY <2>2, <3>1, MostSimilarIsSame
    <2>4. j \in best
        BY <2>2, <2>3
    <2>5. b # 0 /\ b \in DOMAIN to /\ score(j) <= score(b)
        BY <1>4, <2>4
    <2>6. Sig(to[b])
        BY <2>5 DEF SigList
    <2>7. /\ score(b) \in Nat /\ score(b) <= overall(similarity(f, f))
          /\ score(b) = overall(similarity(f, f)) <=> SameEvidence(f, to[b])
        BY <2>6, MostSimilarIsSame
    <2>8. SameEvidence(f, to[b])
        BY <2>2, <2>5, <2>7
    <2> QED BY <2>5, <2>6, <2>8, MostSimilarIsSame
<1> QED BY <1>5, <1>6 DEF b

\* The functions a mapping has a target for.
HaveTargets(from, to) == {i \in DOMAIN from : Mappable(from[i]) /\ BestTarget(from[i], to) # 0}

\* The rows of a mapping are of functions with a target, and a mapping that is not
\* truncated has a row for each of them.
LEMMA MapRows ==
    ASSUME NEW from, SigList(from), NEW to, SigList(to), NEW max \in Nat
    PROVE  LET r == map_functions(from, to, max)
           IN  /\ \A t \in Range(r.transfers) : \E x \in HaveTargets(from, to) :
                     /\ t.from = from[x].ea /\ t.to = to[BestTarget(from[x], to)].ea
                     /\ t.kind = match_kind(similarity(from[x], to[BestTarget(from[x], to)]))
               /\ ~r.truncated => \A x \in HaveTargets(from, to) :
                     \E t \in Range(r.transfers) : t.from = from[x].ea
<1> DEFINE M == HaveTargets(from, to)
           mapped == Ascending(M)
           S == Range(Take(mapped, max))
           score(x) == overall(similarity(from[x], to[BestTarget(from[x], to)]))
           rounded(x) == (score(x) + One \div 2) \div One
           lower == [x \in S |-> {y \in S : rounded(y) > rounded(x) \/ (rounded(y) = rounded(x) /\ y < x)}]
           kept == Arranged(S, lower)
           Transfer(f, g) == [from |-> f.ea, to |-> g.ea, kind |-> match_kind(similarity(f, g)),
                              conflict |-> ~AutoNamed(g) /\ g.name # f.name]
           To(x) == to[BestTarget(from[x], to)]
           r == map_functions(from, to, max)
<1>1. /\ r.transfers = [k \in DOMAIN kept |-> Transfer(from[kept[k]], To(kept[k]))]
      /\ r.truncated = (Len(kept) >= max)
    BY Zenon DEF map_functions, Sorted, HaveTargets, Mappable
<1> HIDE DEF score, rounded, lower, kept, Transfer, To, r
<1>2. M \subseteq 1..Len(from) /\ Len(from) \in Nat /\ M \subseteq DOMAIN from
      /\ \A x \in M : BestTarget(from[x], to) # 0
    BY DEF SigList, HaveTargets
<1> HIDE DEF M
<1>3. /\ mapped \in Seq(M) /\ Len(mapped) \in Nat /\ DOMAIN mapped = 1..Len(mapped)
      /\ \A x \in M : \E k \in DOMAIN mapped : mapped[k] = x
      /\ \A j, k \in DOMAIN mapped : j < k => mapped[j] < mapped[k]
    BY <1>2, AscendingIsSorted, Zenon
<1> HIDE DEF mapped
<1>3a. Len(mapped) \in Nat
    BY <1>3, Zenon
<1>3b. /\ max < Len(mapped) => Take(mapped, max) = SubSeq(mapped, 1, max)
       /\ ~(max < Len(mapped)) => Take(mapped, max) = mapped
    <2>1. ~(max < Len(mapped)) => Take(mapped, max) = SubSeq(mapped, 1, Len(mapped))
        BY Zenon DEF Take
    <2>2. SubSeq(mapped, 1, Len(mapped)) = mapped
        BY <1>3
    <2>3. max < Len(mapped) => Take(mapped, max) = SubSeq(mapped, 1, max)
        BY Zenon DEF Take
    <2> QED BY <2>1, <2>2, <2>3, Zenon
<1>4. S \subseteq M /\ IsFiniteSet(S)
    <2>1. S \subseteq M
        BY <1>3 DEF Take, Range
    <2> HIDE DEF S
    <2>2. S \in SUBSET (1..Len(from))
        BY <1>2, <2>1
    <2>3. IsFiniteSet(1..Len(from))
        BY <1>2, FS_Interval
    <2> QED BY <2>1, <2>2, <2>3, FS_Subset, Zenon
<1>5. Len(mapped) > max => Cardinality(S) >= max
    <2> SUFFICES ASSUME Len(mapped) > max PROVE Cardinality(S) >= max
        OBVIOUS
    <2> DEFINE g == [k \in 1..max |-> mapped[k]]
    <2>1. \A k \in 1..max : k \in DOMAIN mapped /\ mapped[k] \in S /\ mapped[k] \in Int
        <3>0. max < Len(mapped)
            BY <1>3a
        <3>1. Take(mapped, max) = SubSeq(mapped, 1, max)
            BY <1>3b, <3>0
        <3>2. ASSUME NEW k \in 1..max
              PROVE  k \in DOMAIN mapped /\ mapped[k] \in S /\ mapped[k] \in Int
            <4>1. k \in DOMAIN mapped
                BY <1>3, <3>0
            <4>2. mapped[k] \in M /\ mapped[k] \in Int
                <5>1. mapped[k] \in M
                    BY <1>3, <4>1
                <5> QED BY <1>2, <5>1
            <4>3. k \in DOMAIN SubSeq(mapped, 1, max) /\ SubSeq(mapped, 1, max)[k] = mapped[k]
                BY <1>3, <3>0
            <4> QED BY <3>1, <4>1, <4>2, <4>3, Zenon DEF Range
        <3> QED BY <3>2, Zenon
    <2> HIDE DEF S
    <2>2. g \in [1..max -> S]
        BY <2>1
    <2>3. ASSUME NEW j \in 1..max, NEW k \in 1..max, g[j] = g[k]
          PROVE  j = k
        BY <1>3, <2>1, <2>3
    <2>4. g \in Injection(1..max, S)
        <3> HIDE DEF g
        <3> QED BY <2>2, <2>3 DEF Injection, IsInjective
    <2>5. Cardinality(1..max) = max
        BY FS_Interval
    <2>6. Cardinality(1..max) <= Cardinality(S)
        <3> HIDE DEF g
        <3> QED BY <1>4, <2>4, FS_Injection
    <2>7. Cardinality(S) \in Nat
        BY <1>4, FS_CardinalityType
    <2> QED BY <2>5, <2>6, <2>7
<1>6. Len(mapped) <= max => M \subseteq S
    <2> SUFFICES ASSUME Len(mapped) <= max PROVE M \subseteq S
        OBVIOUS
    <2>1. Take(mapped, max) = mapped
        <3>1. ~(max < Len(mapped))
            BY <1>3a
        <3> QED BY <1>3b, <3>1, Zenon
    <2> QED BY <1>3, <2>1, Zenon DEF Range
<1> HIDE DEF S
<1>7. ASSUME NEW x \in S
      PROVE  rounded(x) \in Int /\ x \in Int
    <2>1. x \in DOMAIN from /\ x \in Int /\ BestTarget(from[x], to) # 0
        BY <1>2, <1>4
    <2>2. Sig(from[x]) /\ BestTarget(from[x], to) \in DOMAIN to
        BY <2>1, BestTargetIsSame, Zenon DEF SigList
    <2>3. Sig(to[BestTarget(from[x], to)])
        BY <2>2 DEF SigList
    <2>4. score(x) \in Nat
        BY <2>2, <2>3, MostSimilarIsSame DEF score
    <2>5. rounded(x) \in Int
        BY <2>4 DEF One, rounded
    <2> QED BY <2>1, <2>5
<1>8. Orders(S, lower)
    <2> DEFINE sc == [x \in S |-> rounded(x)]
               tie == [x \in S |-> x]
    <2>1. \A x \in S : sc[x] \in Int
        BY <1>7
    <2>1a. \A x \in S : tie[x] \in Int
        BY <1>7
    <2>2. \A x, y \in S : tie[x] = tie[y] => x = y
        OBVIOUS
    <2>3. lower = [x \in S |-> {y \in S : sc[y] > sc[x] \/ (sc[y] = sc[x] /\ tie[y] < tie[x])}]
        BY DEF lower
    <2> HIDE DEF sc, tie
    <2> QED BY <2>1, <2>1a, <2>2, <2>3, ScoresOrder
<1>9. /\ \A k \in DOMAIN kept : kept[k] \in S
      /\ \A x \in S : \E k \in DOMAIN kept : kept[k] = x
      /\ Len(kept) = Cardinality(S) /\ Len(kept) \in Nat
    BY <1>4, <1>8, ArrangedIsSorted DEF kept
<1>10. ASSUME NEW t \in Range(r.transfers)
       PROVE  \E x \in M : t.from = from[x].ea /\ t.to = To(x).ea /\ t.kind = match_kind(similarity(from[x], To(x)))
    <2>1. PICK k \in DOMAIN kept : t = Transfer(from[kept[k]], To(kept[k]))
        BY <1>1, Zenon DEF Range
    <2>2. kept[k] \in M
        BY <1>4, <1>9
    <2>3. /\ t.from = from[kept[k]].ea /\ t.to = To(kept[k]).ea
          /\ t.kind = match_kind(similarity(from[kept[k]], To(kept[k])))
        BY <2>1 DEF Transfer
    <2> QED BY <2>2, <2>3, Zenon
<1>11. ASSUME ~r.truncated, NEW x \in M
       PROVE  \E t \in Range(r.transfers) : t.from = from[x].ea
    <2>1. x \in S
        <3>1. ~(Len(kept) >= max) /\ Len(kept) = Cardinality(S) /\ Len(kept) \in Nat
            BY <1>1, <1>9, <1>11, Zenon
        <3>2. ~(Len(mapped) > max)
            BY <1>5, <3>1
        <3>3. Len(mapped) <= max
            BY <1>3a, <3>2
        <3> QED BY <1>6, <3>3, Zenon
    <2>2. PICK k \in DOMAIN kept : kept[k] = x
        BY <1>9, <2>1
    <2>3. Transfer(from[x], To(x)) \in Range(r.transfers)
        BY <1>1, <2>2, Zenon DEF Range
    <2>4. Transfer(from[x], To(x)).from = from[x].ea
        BY DEF Transfer
    <2> QED BY <2>3, <2>4, Zenon
<1> QED BY <1>10, <1>11, Zenon DEF M, To, r

\* A function with its equal in the other binary is mapped to such an equal, strictly,
\* unless the mapping is truncated or leaves it out as too small.
LEMMA MapIsStrict ==
    ASSUME NEW from, SigList(from), Apart(from), NEW to, SigList(to), NEW max \in Nat,
           NEW i \in DOMAIN from, NEW j \in DOMAIN to, SameEvidence(from[i], to[j])
    PROVE  LET r == map_functions(from, to, max)
           IN  /\ \A t \in Range(r.transfers) : t.from = from[i].ea =>
                     /\ t.kind = "strict"
                     /\ \E k \in DOMAIN to : t.to = to[k].ea /\ SameEvidence(from[i], to[k])
               /\ ~r.truncated /\ Mappable(from[i]) =>
                     \E t \in Range(r.transfers) : t.from = from[i].ea
<1> DEFINE r == map_functions(from, to, max)
           b == BestTarget(from[i], to)
<1>1. Sig(from[i])
    BY DEF SigList
<1>2. b # 0 /\ b \in DOMAIN to /\ SameEvidence(from[i], to[b]) /\ match_kind(similarity(from[i], to[b])) = "strict"
    BY <1>1, BestTargetIsSame, Zenon
<1>3. /\ \A t \in Range(r.transfers) : \E x \in HaveTargets(from, to) :
            /\ t.from = from[x].ea /\ t.to = to[BestTarget(from[x], to)].ea
            /\ t.kind = match_kind(similarity(from[x], to[BestTarget(from[x], to)]))
      /\ ~r.truncated => \A x \in HaveTargets(from, to) :
            \E t \in Range(r.transfers) : t.from = from[x].ea
    BY MapRows
<1> HIDE DEF r
<1>4. ASSUME NEW t \in Range(r.transfers), t.from = from[i].ea
      PROVE  t.kind = "strict" /\ \E k \in DOMAIN to : t.to = to[k].ea /\ SameEvidence(from[i], to[k])
    <2>1. PICK x \in HaveTargets(from, to) :
            /\ t.from = from[x].ea /\ t.to = to[BestTarget(from[x], to)].ea
            /\ t.kind = match_kind(similarity(from[x], to[BestTarget(from[x], to)]))
        BY <1>3, Zenon
    <2>2. x \in DOMAIN from
        BY Zenon DEF HaveTargets
    <2>3. x = i
        BY <1>4, <2>1, <2>2, Zenon DEF Apart
    <2> QED BY <1>2, <2>1, <2>3, Zenon
<1>5. Mappable(from[i]) => i \in HaveTargets(from, to)
    BY <1>2, Zenon DEF HaveTargets
<1> QED BY <1>3, <1>4, <1>5, Zenon DEF r

\* mk_idx forgets the calls of a function and nothing else that similarity looks at.
LEMMA DroppedCalls ==
    ASSUME NEW r, SigList(r)
    PROVE  /\ SigList(mk_idx(r)) /\ DOMAIN mk_idx(r) = DOMAIN r
           /\ \A i \in DOMAIN r : /\ mk_idx(r)[i].ea = r[i].ea
                                  /\ mk_idx(r)[i].imports = r[i].imports
                                  /\ mk_idx(r)[i].strings = r[i].strings
                                  /\ mk_idx(r)[i].constants = r[i].constants
                                  /\ mk_idx(r)[i].size = r[i].size
                                  /\ mk_idx(r)[i].callees = 0 /\ mk_idx(r)[i].callers = 0
<1> DEFINE m == mk_idx(r)
<1>1. /\ Len(r) \in Nat /\ DOMAIN r = 1..Len(r) /\ DOMAIN m = DOMAIN r
      /\ \A i \in DOMAIN r : m[i] = [r[i] EXCEPT !.callees = 0, !.callers = 0]
    BY DEF mk_idx, SigList
<1>2. m = [i \in 1..Len(r) |-> m[i]]
    BY <1>1 DEF mk_idx
<1> HIDE DEF m
<1>3. ASSUME NEW i \in DOMAIN r
      PROVE  /\ Sig(m[i]) /\ m[i].ea = r[i].ea /\ m[i].imports = r[i].imports
             /\ m[i].strings = r[i].strings /\ m[i].constants = r[i].constants
             /\ m[i].size = r[i].size /\ m[i].callees = 0 /\ m[i].callers = 0
    <2> DEFINE f == r[i]
               g == m[i]
    <2>1. Sig(f) /\ f \in FunctionSig
        <3>1. Sig(f)
            BY Zenon DEF SigList
        <3> QED BY <3>1, Zenon DEF Sig
    <2>2. g = [f EXCEPT !.callees = 0, !.callers = 0]
        BY <1>1, Zenon
    <2> HIDE DEF f, g
    <2>3. /\ g \in FunctionSig /\ g.ea = f.ea /\ g.imports = f.imports
          /\ g.strings = f.strings /\ g.constants = f.constants
          /\ g.size = f.size /\ g.callees = 0 /\ g.callers = 0
        BY <2>1, <2>2, Zenon DEF FunctionSig
    <2>4. Sig(g)
        BY <2>1, <2>3 DEF Sig
    <2> QED BY <2>3, <2>4 DEF f, g
<1>4. SigList(m)
    <2>1. DOMAIN m = 1..Len(r) /\ Len(r) \in Nat
        BY <1>1, Zenon
    <2>2. \A i \in 1..Len(r) : Sig(m[i]) /\ m[i] \in FunctionSig
        BY <1>1, <1>3, Zenon DEF Sig
    <2>3. m \in [1..Len(r) -> FunctionSig]
        BY <1>2, <2>2
    <2>4. Len(m) = Len(r)
        BY <2>1, <2>3
    <2> QED BY <2>1, <2>2, <2>4 DEF SigList
<1> QED BY <1>1, <1>3, <1>4, Zenon DEF m

\* sig_map_from_sigs maps a function that has its equal in the other binary strictly, to
\* a function with the same imports, strings, constants and size.
LEMMA SigMapIsStrict ==
    ASSUME NEW from, SigList(from), Apart(from), NEW to, SigList(to), NEW max \in Nat,
           NEW i \in DOMAIN from, NEW j \in DOMAIN to, SameEvidence(from[i], to[j])
    PROVE  LET r == sig_map_from_sigs(from, to, max)
           IN  /\ \A t \in Range(r.transfers) : t.from = from[i].ea =>
                     /\ t.kind = "strict"
                     /\ \E k \in DOMAIN to : t.to = to[k].ea /\ SameContent(from[i], to[k])
               /\ ~r.truncated /\ Mappable(from[i]) =>
                     \E t \in Range(r.transfers) : t.from = from[i].ea
<1> DEFINE f == mk_idx(from)
           g == mk_idx(to)
           r == map_functions(f, g, max)
<1>1. SigList(f) /\ SigList(g) /\ DOMAIN f = DOMAIN from /\ DOMAIN g = DOMAIN to
    BY DroppedCalls
<1>2. /\ \A x \in DOMAIN from : f[x].ea = from[x].ea
      /\ \A x \in DOMAIN to : g[x].ea = to[x].ea
    BY DroppedCalls
<1>3. Apart(f)
    BY <1>1, <1>2 DEF Apart
<1>4. SameEvidence(f[i], g[j])
    BY DroppedCalls DEF SameEvidence
<1>5. r = sig_map_from_sigs(from, to, max)
    BY DEF sig_map_from_sigs
<1>6. \A k \in DOMAIN to : SameEvidence(f[i], g[k]) => SameContent(from[i], to[k])
    BY DroppedCalls DEF SameEvidence, SameContent
<1>7. Mappable(from[i]) => Mappable(f[i])
    BY DroppedCalls DEF Mappable
<1> HIDE DEF f, g
<1>8. /\ \A t \in Range(r.transfers) : t.from = f[i].ea =>
            /\ t.kind = "strict"
            /\ \E k \in DOMAIN g : t.to = g[k].ea /\ SameEvidence(f[i], g[k])
      /\ ~r.truncated /\ Mappable(f[i]) =>
            \E t \in Range(r.transfers) : t.from = f[i].ea
    BY <1>1, <1>3, <1>4, MapIsStrict
<1> HIDE DEF r
<1>9. ASSUME NEW t \in Range(r.transfers), t.from = from[i].ea
      PROVE  t.kind = "strict" /\ \E k \in DOMAIN to : t.to = to[k].ea /\ SameContent(from[i], to[k])
    BY <1>1, <1>2, <1>6, <1>8, <1>9, Zenon
<1>10. ASSUME ~r.truncated, Mappable(from[i])
       PROVE  \E t \in Range(r.transfers) : t.from = from[i].ea
    BY <1>2, <1>7, <1>8, <1>10, Zenon
<1> QED BY <1>5, <1>9, <1>10, Zenon


\* What is exported of a binary.
LEMMA ExportedFunctions ==
    ASSUME NEW r, SigList(r), Distinguished(r), NEW max \in Nat
    PROVE  LET e == fingerprints(r, max).functions
           IN  SigList(e) /\ Distinguished(e)
<1> DEFINE S == {i \in DOMAIN r : ~Thunk(r[i]) /\ r[i].size >= 16}
           score == [i \in S |-> r[i].size]
           tie == [i \in S |-> i]
           lower == [x \in S |-> {y \in S : score[y] > score[x] \/ (score[y] = score[x] /\ tie[y] < tie[x])}]
           s == Arranged(S, lower)
           order == Take(s, max)
           e == fingerprints(r, max).functions
<1>1. e = [k \in DOMAIN order |-> r[order[k]]]
    <2>1. lower = [x \in S |-> {y \in S : r[y].size > r[x].size \/ (r[y].size = r[x].size /\ y < x)}]
        OBVIOUS
    <2> HIDE DEF lower
    <2> QED BY <2>1 DEF fingerprints, Sorted
<1>2. S \in SUBSET (1..Len(r)) /\ Len(r) \in Nat /\ DOMAIN r = 1..Len(r)
    BY DEF SigList
<1>3. IsFiniteSet(S)
    <2> HIDE DEF S
    <2>1. IsFiniteSet(1..Len(r))
        BY <1>2, FS_Interval
    <2> QED BY <1>2, <2>1, FS_Subset, Zenon
<1> HIDE DEF S
<1>4. \A x \in S : score[x] \in Int
    BY <1>2 DEF SigList, Sig, FunctionSig
<1>5. \A x \in S : tie[x] \in Int
    BY <1>2
<1>6. \A x, y \in S : tie[x] = tie[y] => x = y
    OBVIOUS
<1>7. Orders(S, lower)
    <2> HIDE DEF score, tie
    <2> QED BY <1>4, <1>5, <1>6, ScoresOrder
<1>8. /\ s \in Seq(S) /\ Len(s) \in Nat /\ DOMAIN s = 1..Len(s)
      /\ \A k \in DOMAIN s : s[k] \in S
      /\ \A l, k \in DOMAIN s : s[l] = s[k] => l = k
    <2> HIDE DEF lower
    <2> QED BY <1>3, <1>7, ArrangedIsSorted
<1> HIDE DEF s
<1>9. /\ Len(order) \in Nat /\ DOMAIN order = 1..Len(order)
      /\ \A k \in DOMAIN order : order[k] \in S /\ k \in DOMAIN s /\ order[k] = s[k]
    BY <1>8 DEF Take
<1> HIDE DEF order, e
<1>10. /\ Len(e) = Len(order) /\ DOMAIN e = 1..Len(order)
       /\ \A k \in DOMAIN e : e[k] = r[order[k]]
    BY <1>1, <1>9
<1>11. ASSUME NEW k \in DOMAIN e
       PROVE  Sig(e[k])
    BY <1>2, <1>9, <1>10, Zenon DEF SigList
<1>12. SigList(e)
    BY <1>9, <1>10, <1>11 DEF SigList
<1>13. ASSUME NEW k \in DOMAIN e, NEW l \in DOMAIN e, e[k].name = e[l].name
       PROVE  k = l
    <2>1. /\ order[k] \in DOMAIN r /\ order[l] \in DOMAIN r
          /\ order[k] = s[k] /\ order[l] = s[l] /\ k \in DOMAIN s /\ l \in DOMAIN s
        BY <1>2, <1>9, <1>10, Zenon
    <2>2. order[k] = order[l]
        BY <1>10, <1>13, <2>1 DEF Distinguished
    <2> QED BY <1>8, <2>1, <2>2, Zenon
<1> QED BY <1>12, <1>13 DEF Distinguished, e

\* A binary against itself.
LEMMA SelfDiffBinary ==
    ASSUME NEW r, SigList(r), Distinguished(r), NEW threshold \in 0..10, NEW max_blocks \in Nat
    PROVE  LET d == diff_binary(r, r, threshold, max_blocks)
               same == {<<i, i>> : i \in DOMAIN r}
           IN  d.pairs = same /\ d.equal = same
<1> DEFINE named == PairNames(r, r)
           same == {<<i, i>> : i \in DOMAIN r}
           leftA == DOMAIN r \ {p[1] : p \in named}
           leftB == LastNamed(r) \ {p[2] : p \in named}
           good(i) == {j \in leftB : fam_sim(r[i], r[j]) >= Relaxed}
           best(i) == {j \in good(i) : \A k \in good(i) :
                           \/ fam_sim(r[i], r[k]) < fam_sim(r[i], r[j])
                           \/ /\ fam_sim(r[i], r[k]) = fam_sim(r[i], r[j])
                              /\ r[j].name <= r[k].name}
           pairs == named \cup UNION {{i} \X best(i) : i \in leftA}
           Unchanged(p) ==
               LET d == diff_blocks(r[p[1]].blocks, r[p[2]].blocks, threshold, max_blocks * 4)
               IN  \A k \in DOMAIN d.rows : d.rows[k].kind = "equal"
           d == diff_binary(r, r, threshold, max_blocks)
<1>1. d = [pairs |-> pairs, equal |-> {p \in pairs : Unchanged(p)}]
    BY DEF diff_binary
<1>2. LastNamed(r) = DOMAIN r
    <2>1. ASSUME NEW i \in DOMAIN r, NEW k \in DOMAIN r, r[k].name = r[i].name
          PROVE  k <= i
        BY <2>1 DEF Distinguished, SigList
    <2> QED BY <2>1 DEF LastNamed
<1>3. named = same
    <2>1. ASSUME NEW p \in named
          PROVE  p \in same
        <3>1. p \in (DOMAIN r) \X (DOMAIN r) /\ r[p[1]].name = r[p[2]].name
            BY <1>2 DEF PairNames
        <3>2. p[1] = p[2] /\ p = <<p[1], p[2]>> /\ p[1] \in DOMAIN r
            BY <3>1 DEF Distinguished
        <3> QED BY <3>2
    <2>2. ASSUME NEW i \in DOMAIN r
          PROVE  <<i, i>> \in named
        <3>1. ASSUME NEW k \in 1..(i - 1)
              PROVE  r[k].name # r[i].name
            <4>1. k \in DOMAIN r /\ k # i
                BY DEF SigList
            <4> QED BY <4>1 DEF Distinguished
        <3> QED BY <1>2, <3>1 DEF PairNames
    <2> QED BY <2>1, <2>2
<1>4. leftA = {}
    <2>1. ASSUME NEW i \in DOMAIN r
          PROVE  \E p \in named : p[1] = i
        <3>1. <<i, i>> \in named /\ <<i, i>>[1] = i
            BY <1>3
        <3> QED BY <3>1
    <2> HIDE DEF named
    <2> QED BY <2>1
<1>5. pairs = same
    <2> HIDE DEF leftA, best, named, same
    <2> QED BY <1>3, <1>4
<1>6. ASSUME NEW p \in same
      PROVE  Unchanged(p)
    <2>1. PICK i \in DOMAIN r : p = <<i, i>>
        BY <1>6
    <2>2. Sig(r[i])
        BY DEF SigList
    <2>3. r[i].blocks \in Seq(BlockFp)
        BY <2>2 DEF Sig, FunctionSig
    <2> DEFINE a == r[i].blocks
               n == max_blocks * 4
    <2>4. Blocks(a) /\ n \in Nat
        BY <2>3 DEF Blocks
    <2>5. p[1] = i /\ p[2] = i
        BY <2>1
    <2> HIDE DEF a, n
    <2>6. LET x == diff_blocks(a, a, threshold, n)
          IN  \A k \in DOMAIN x.rows : x.rows[k].kind = "equal"
        BY <2>4, SelfDiffIsEqual
    <2> QED BY <2>5, <2>6 DEF a, n
<1> HIDE DEF pairs, same, Unchanged, d
<1>7. {p \in pairs : Unchanged(p)} = same
    BY <1>5, <1>6
<1>8. d.pairs = pairs /\ d.equal = {p \in pairs : Unchanged(p)}
    BY <1>1
<1> QED BY <1>5, <1>7, <1>8 DEF d, same
=============================================================================
