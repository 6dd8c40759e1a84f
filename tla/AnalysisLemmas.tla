-------------------------- MODULE AnalysisLemmas ---------------------------
(***************************************************************************)
(* What the operators of the analyses compute, for every input: sorted     *)
(* lists, the values of a WebAssembly body, deobfuscation plans and the    *)
(* discovery of installs.                                                  *)
(***************************************************************************)
EXTENDS StackMachine, DiscoveryReference, Deobfuscation, FiniteSetTheorems, WellFoundedInduction,
        TLAPS

(***************************************************************************)
(* Lists.                                                                  *)
(***************************************************************************)
\* Induction over the natural numbers, for a property given as a set.
LEMMA SetInduction ==
    ASSUME NEW X, 0 \in X, \A n \in Nat : n \in X => n + 1 \in X
    PROVE  Nat \subseteq X
<1> SUFFICES ASSUME Nat \ X # {} PROVE FALSE
    OBVIOUS
<1>1. PICK m \in Nat \ X : \A y \in Nat \ X : ~(<<y, m>> \in OpToRel(<, Nat))
    BY WFMin, NatLessThanWellFounded, Zenon
<1>2. m # 0 /\ m - 1 \in Nat \ X
    OBVIOUS
<1>3. <<m - 1, m>> \in OpToRel(<, Nat)
    BY <1>2 DEF OpToRel
<1> QED BY <1>1, <1>2, <1>3, Zenon

\* lower[x] are the elements of S before x in a strict total order.
Orders(S, lower) ==
    /\ \A x \in S : lower[x] \subseteq S \ {x}
    /\ \A x, y \in S : x # y => x \in lower[y] \/ y \in lower[x]
    /\ \A x, y \in S : y \in lower[x] => lower[y] \subseteq lower[x]

\* The number of elements before it tells each element of a finite set, and every
\* number below the size of the set is such a number.
LEMMA RankIsPosition ==
    ASSUME NEW S, IsFiniteSet(S), NEW lower, Orders(S, lower)
    PROVE  /\ Cardinality(S) \in Nat
           /\ \A x \in S : Cardinality(lower[x]) + 1 \in 1..Cardinality(S)
           /\ \A x, y \in S : y \in lower[x] => Cardinality(lower[y]) < Cardinality(lower[x])
           /\ \A x, y \in S : Cardinality(lower[x]) = Cardinality(lower[y]) => x = y
           /\ \A k \in 1..Cardinality(S) : \E x \in S : Cardinality(lower[x]) = k - 1
<1> DEFINE n == Cardinality(S)
           rank == [x \in S |-> Cardinality(lower[x]) + 1]
<1>1. n \in Nat
    BY FS_CardinalityType
<1>2. ASSUME NEW x \in S
      PROVE  IsFiniteSet(lower[x]) /\ Cardinality(lower[x]) \in Nat
    <2>1. lower[x] \in SUBSET S
        BY DEF Orders
    <2> QED BY <2>1, FS_Subset, FS_CardinalityType
<1>3. ASSUME NEW x \in S
      PROVE  Cardinality(lower[x]) < n
    <2>1. lower[x] \in SUBSET S /\ x \notin lower[x]
        BY DEF Orders
    <2>2. Cardinality(lower[x]) <= n /\ (n = Cardinality(lower[x]) => S = lower[x])
        BY <2>1, FS_Subset
    <2> QED BY <2>1, <2>2, <1>1, <1>2
<1>4. ASSUME NEW x \in S, NEW y \in S, y \in lower[x]
      PROVE  Cardinality(lower[y]) < Cardinality(lower[x])
    <2>1. lower[y] \in SUBSET lower[x] /\ y \notin lower[y]
        BY <1>4 DEF Orders
    <2>2. Cardinality(lower[y]) <= Cardinality(lower[x])
          /\ (Cardinality(lower[x]) = Cardinality(lower[y]) => lower[x] = lower[y])
        BY <2>1, <1>2, FS_Subset
    <2> QED BY <2>1, <2>2, <1>2, <1>4
<1>5. ASSUME NEW x \in S, NEW y \in S, Cardinality(lower[x]) = Cardinality(lower[y])
      PROVE  x = y
    <2>1. SUFFICES ASSUME x # y PROVE FALSE
        OBVIOUS
    <2>2. x \in lower[y] \/ y \in lower[x]
        BY <2>1 DEF Orders
    <2> QED BY <2>2, <1>2, <1>4, <1>5
<1>6. rank \in [S -> 1..n]
    BY <1>1, <1>2, <1>3
<1>7. \A x, y \in S : rank[x] = rank[y] => x = y
    BY <1>2, <1>5
<1>8. rank \in Injection(S, 1..n)
    BY <1>6, <1>7 DEF Injection, IsInjective
<1>9. IsFiniteSet(1..n) /\ Cardinality(1..n) = n
    BY <1>1, FS_Interval
<1>10. rank \in Surjection(S, 1..n)
    BY <1>8, <1>9, FS_Injection
<1>11. \A k \in 1..n : \E x \in S : rank[x] = k
    BY <1>10, Zenon DEF Surjection
<1>12. ASSUME NEW k \in 1..n
       PROVE  \E x \in S : Cardinality(lower[x]) = k - 1
    <2>1. PICK x \in S : rank[x] = k
        BY <1>11
    <2> QED BY <2>1, <1>2
<1> QED BY <1>1, <1>2, <1>3, <1>4, <1>5, <1>12

\* Arranged lists each element of a finite set once, in the order.
LEMMA ArrangedIsSorted ==
    ASSUME NEW S, IsFiniteSet(S), NEW lower, Orders(S, lower)
    PROVE  LET s == Arranged(S, lower)
           IN  /\ s \in Seq(S)
               /\ Len(s) = Cardinality(S) /\ Len(s) \in Nat /\ DOMAIN s = 1..Len(s)
               /\ \A k \in DOMAIN s : s[k] \in S
               /\ \A x \in S : \E k \in DOMAIN s : s[k] = x
               /\ \A j, k \in DOMAIN s : s[j] = s[k] => j = k
               /\ \A j, k \in DOMAIN s : j < k => s[j] \in lower[s[k]]
<1> DEFINE s == Arranged(S, lower)
           n == Cardinality(S)
<1>1. n \in Nat /\ s = [k \in 1..n |-> CHOOSE x \in S : Cardinality(lower[x]) = k - 1]
    BY RankIsPosition DEF Arranged
<1>2. ASSUME NEW k \in 1..n
      PROVE  s[k] \in S /\ Cardinality(lower[s[k]]) = k - 1
    <2>1. \E x \in S : Cardinality(lower[x]) = k - 1
        BY RankIsPosition
    <2> QED BY <2>1, <1>1
<1> HIDE DEF s
<1>3. s \in Seq(S) /\ Len(s) = n /\ DOMAIN s = 1..n
    BY <1>1, <1>2
<1>4. ASSUME NEW x \in S
      PROVE  \E k \in 1..n : s[k] = x
    <2>1. Cardinality(lower[x]) + 1 \in 1..n
        BY RankIsPosition
    <2>2. PICK k \in 1..n : k = Cardinality(lower[x]) + 1
        BY <2>1
    <2>2a. Cardinality(lower[x]) \in Nat
        <3>1. lower[x] \in SUBSET S
            BY DEF Orders
        <3> QED BY <3>1, FS_Subset, FS_CardinalityType
    <2>3. Cardinality(lower[s[k]]) = Cardinality(lower[x]) /\ s[k] \in S
        BY <1>2, <2>2, <2>2a
    <2> QED BY <2>3, RankIsPosition
<1>5. ASSUME NEW j \in 1..n, NEW k \in 1..n, s[j] = s[k]
      PROVE  j = k
    BY <1>1, <1>2, <1>5
<1>6. ASSUME NEW j \in 1..n, NEW k \in 1..n, j < k
      PROVE  s[j] \in lower[s[k]]
    <2>0. Cardinality(lower[s[j]]) = j - 1 /\ Cardinality(lower[s[k]]) = k - 1
        BY <1>2
    <2>1. s[j] # s[k]
        <3>1. j - 1 # k - 1
            BY <1>1, <1>6
        <3> QED BY <3>1, <2>0
    <2>2. s[k] \in lower[s[j]] => Cardinality(lower[s[k]]) < Cardinality(lower[s[j]])
        BY <1>2, RankIsPosition
    <2>3. s[k] \notin lower[s[j]]
        BY <2>0, <2>2, <1>1, <1>6
    <2> QED BY <2>1, <2>3, <1>2 DEF Orders
<1>7. Len(s) \in Nat /\ DOMAIN s = 1..Len(s)
    BY <1>1, <1>3
<1> QED BY <1>2, <1>3, <1>4, <1>5, <1>6, <1>7, Zenon DEF s

\* A set of positions of a list, in ascending order.
LEMMA AscendingIsSorted ==
    ASSUME NEW S, NEW n \in Nat, S \subseteq 1..n
    PROVE  LET s == Ascending(S)
           IN  /\ s \in Seq(S)
               /\ Len(s) = Cardinality(S) /\ Len(s) \in Nat /\ DOMAIN s = 1..Len(s)
               /\ \A k \in DOMAIN s : s[k] \in S
               /\ \A x \in S : \E k \in DOMAIN s : s[k] = x
               /\ \A j, k \in DOMAIN s : j < k => s[j] < s[k]
<1> DEFINE lower == [x \in S |-> {y \in S : y < x}]
<1>1. IsFiniteSet(S)
    <2>1. IsFiniteSet(1..n) /\ S \in SUBSET (1..n)
        BY FS_Interval
    <2> QED BY <2>1, FS_Subset, Zenon
<1>2. Orders(S, lower)
    <2>1. \A x \in S : x \in Int /\ lower[x] = {y \in S : y < x}
        OBVIOUS
    <2> HIDE DEF lower
    <2>2. \A x, y \in S : y \in lower[x] <=> y < x
        BY <2>1
    <2>3. \A x \in S : lower[x] \subseteq S
        BY <2>1, Zenon
    <2>4. ASSUME NEW x \in S, NEW y \in S, y \in lower[x], NEW z \in lower[y]
          PROVE  z \in lower[x]
        <3>1. z \in S /\ z < y /\ y < x
            BY <2>2, <2>3, <2>4, Zenon
        <3>2. z < x
            BY <3>1, <2>1
        <3> QED BY <3>1, <3>2, <2>2
    <2> QED BY <2>1, <2>2, <2>3, <2>4 DEF Orders
<1>3. Ascending(S) = Arranged(S, lower)
    BY DEF Ascending, Sorted
<1>4. \A x \in S : \A y \in lower[x] : y < x
    OBVIOUS
<1> HIDE DEF lower
<1> DEFINE s == Ascending(S)
<1>5. /\ s \in Seq(S)
      /\ Len(s) = Cardinality(S) /\ Len(s) \in Nat /\ DOMAIN s = 1..Len(s)
      /\ \A k \in DOMAIN s : s[k] \in S
      /\ \A x \in S : \E k \in DOMAIN s : s[k] = x
      /\ \A j, k \in DOMAIN s : j < k => s[j] \in lower[s[k]]
    BY <1>1, <1>2, <1>3, ArrangedIsSorted
<1> HIDE DEF s
<1>6. \A j, k \in DOMAIN s : j < k => s[j] < s[k]
    BY <1>4, <1>5, Zenon
<1> QED BY <1>5, <1>6 DEF s

\* A non-empty set of positions has a first and a last one.
LEMMA FirstAndLast ==
    ASSUME NEW n \in Nat, NEW S, S \subseteq 1..n, S # {}
    PROVE  /\ Max(S) \in S /\ \A y \in S : y <= Max(S)
           /\ Min(S) \in S /\ \A y \in S : Min(S) <= y
<1> DEFINE s == Ascending(S)
<1>0. \A x \in S : x \in Int
    OBVIOUS
<1>1. IsFiniteSet(S) /\ Cardinality(S) \in Nat \ {0}
    <2>1. IsFiniteSet(1..n) /\ S \in SUBSET (1..n)
        BY FS_Interval
    <2>2. IsFiniteSet(S)
        BY <2>1, FS_Subset, Zenon
    <2> QED BY <2>2, FS_CardinalityType, FS_EmptySet
<1>2. /\ Len(s) = Cardinality(S) /\ DOMAIN s = 1..Len(s)
      /\ \A k \in DOMAIN s : s[k] \in S
      /\ \A x \in S : \E k \in DOMAIN s : s[k] = x
      /\ \A j, k \in DOMAIN s : j < k => s[j] < s[k]
    BY AscendingIsSorted, Zenon
<1> HIDE DEF s
<1>3. s[Len(s)] \in S /\ \A y \in S : y <= s[Len(s)]
    <2>1. Len(s) \in DOMAIN s
        BY <1>1, <1>2
    <2>2. ASSUME NEW y \in S
          PROVE  y <= s[Len(s)]
        <3>1. PICK k \in DOMAIN s : s[k] = y
            BY <1>2
        <3>2. k = Len(s) \/ k < Len(s)
            BY <1>1, <1>2
        <3>3. k < Len(s) => s[k] < s[Len(s)]
            BY <2>1, <1>2
        <3>4. y \in Int /\ s[Len(s)] \in Int
            BY <2>1, <1>0, <1>2, Zenon
        <3> QED BY <3>1, <3>2, <3>3, <3>4
    <2> QED BY <2>1, <2>2, <1>2
<1>4. s[1] \in S /\ \A y \in S : s[1] <= y
    <2>1. 1 \in DOMAIN s
        BY <1>1, <1>2
    <2>2. ASSUME NEW y \in S
          PROVE  s[1] <= y
        <3>1. PICK k \in DOMAIN s : s[k] = y
            BY <1>2
        <3>2. k = 1 \/ 1 < k
            BY <1>1, <1>2
        <3>3. 1 < k => s[1] < s[k]
            BY <2>1, <1>2
        <3>4. y \in Int /\ s[1] \in Int
            BY <2>1, <1>0, <1>2, Zenon
        <3> QED BY <3>1, <3>2, <3>3, <3>4
    <2> QED BY <2>1, <2>2, <1>2
<1>5. Max(S) \in S /\ \A y \in S : Max(S) >= y
    BY <1>3, Zenon DEF Max
<1>6. Min(S) \in S /\ \A y \in S : Min(S) =< y
    BY <1>4, Zenon DEF Min
<1> QED BY <1>5, <1>6

\* By score, best first, then by a number that tells the elements apart.
LEMMA ScoresOrder ==
    ASSUME NEW S, NEW score, \A x \in S : score[x] \in Int,
           NEW tie, \A x \in S : tie[x] \in Int, \A x, y \in S : tie[x] = tie[y] => x = y,
           NEW lower,
           lower = [x \in S |-> {y \in S : score[y] > score[x] \/ (score[y] = score[x] /\ tie[y] < tie[x])}]
    PROVE  Orders(S, lower)
<1>1. \A x, y \in S : y \in lower[x] <=> score[y] > score[x] \/ (score[y] = score[x] /\ tie[y] < tie[x])
    OBVIOUS
<1>2. \A x \in S : lower[x] \subseteq S /\ x \notin lower[x]
    BY <1>1
<1>3. \A x, y \in S : x # y => x \in lower[y] \/ y \in lower[x]
    BY <1>1
<1>4. ASSUME NEW x \in S, NEW y \in S, y \in lower[x], NEW z \in lower[y]
      PROVE  z \in lower[x]
    <2>1. z \in S
        BY <1>2, <1>4
    <2> QED BY <1>1, <1>4, <2>1
<1> QED BY <1>2, <1>3, <1>4 DEF Orders

\* Euclid's division, as \div and % compute it.
LEMMA Division ==
    ASSUME NEW n \in Int, NEW M \in Nat \ {0}
    PROVE  /\ n \div M \in Int /\ n % M \in 0..(M - 1)
           /\ n = M * (n \div M) + (n % M)
OBVIOUS

\* The remainder is the only number below M that division leaves.
LEMMA Remainder ==
    ASSUME NEW M \in Nat \ {0}, NEW n \in Int, NEW q \in Int, NEW r \in 0..(M - 1), n = M * q + r
    PROVE  n % M = r
<1> DEFINE d == n \div M
           e == n % M
<1>1. d \in Int /\ e \in 0..(M - 1) /\ n = M * d + e
    BY Division
<1> HIDE DEF d, e
<1>2. M * (q - d) = e - r
    BY <1>1
<1>3. ~(q - d >= 1)
    <2> SUFFICES ASSUME q - d >= 1 PROVE FALSE
        OBVIOUS
    <2>1. M * (q - d) >= M
        BY <1>1
    <2> QED BY <2>1, <1>1, <1>2
<1>4. ~(q - d <= -1)
    <2> SUFFICES ASSUME q - d <= -1 PROVE FALSE
        OBVIOUS
    <2>1. M * (q - d) <= -M
        BY <1>1
    <2> QED BY <2>1, <1>1, <1>2
<1>5. q = d
    BY <1>1, <1>3, <1>4
<1>6. e = r
    BY <1>1, <1>2, <1>5
<1> QED BY <1>6 DEF e

\* Numbers with the same remainder have sums, differences and products with the same remainder.
LEMMA Remainders ==
    ASSUME NEW M \in Nat \ {0}, NEW x \in Int, NEW y \in Int
    PROVE  /\ (x + y) % M = ((x % M) + (y % M)) % M
           /\ (x - y) % M = ((x % M) - (y % M)) % M
           /\ (x * y) % M = ((x % M) * (y % M)) % M
<1> DEFINE p == x \div M
           a == x % M
           q == y \div M
           b == y % M
<1>1. p \in Int /\ a \in Int /\ x = M * p + a /\ q \in Int /\ b \in Int /\ y = M * q + b
    BY Division
<1> HIDE DEF p, a, q, b
<1>2. ASSUME NEW u \in Int, NEW v \in Int, NEW k \in Int, u = M * k + v
      PROVE  u % M = v % M
    <2> DEFINE l == v \div M
               r == v % M
    <2>1. l \in Int /\ r \in 0..(M - 1) /\ v = M * l + r
        BY Division
    <2> HIDE DEF l, r
    <2>2. u = M * (k + l) + r /\ k + l \in Int
        BY <2>1, <1>2
    <2>3. u % M = r
        BY <2>1, <2>2, Remainder
    <2> QED BY <2>3 DEF r
<1>3. x + y = M * (p + q) + (a + b)
    BY <1>1
<1>4. x - y = M * (p - q) + (a - b)
    BY <1>1
<1>5. x * y = M * ((M * p) * q + p * b + q * a) + a * b
    BY <1>1
<1>6. (x + y) % M = (a + b) % M
    <2> DEFINE u == x + y
               v == a + b
               k == p + q
    <2>1. u \in Int /\ v \in Int /\ k \in Int /\ u = M * k + v
        BY <1>1, <1>3
    <2> HIDE DEF u, v, k
    <2>2. u % M = v % M
        BY <2>1, <1>2, Zenon
    <2> QED BY <2>2 DEF u, v
<1>7. (x - y) % M = (a - b) % M
    <2> DEFINE u == x - y
               v == a - b
               k == p - q
    <2>1. u \in Int /\ v \in Int /\ k \in Int /\ u = M * k + v
        BY <1>1, <1>4
    <2> HIDE DEF u, v, k
    <2>2. u % M = v % M
        BY <2>1, <1>2, Zenon
    <2> QED BY <2>2 DEF u, v
<1>8. (x * y) % M = (a * b) % M
    <2> DEFINE u == x * y
               v == a * b
               k == (M * p) * q + p * b + q * a
    <2>1. u \in Int /\ v \in Int /\ k \in Int /\ u = M * k + v
        BY <1>1, <1>5
    <2> HIDE DEF u, v, k
    <2>2. u % M = v % M
        BY <2>1, <1>2, Zenon
    <2> QED BY <2>2 DEF u, v
<1> QED BY <1>6, <1>7, <1>8 DEF a, b

(***************************************************************************)
(* The value analysis of a WebAssembly body follows the machine that runs  *)
(* it.                                                                     *)
(***************************************************************************)
\* A list with an element more, and the start of a list.
LEMMA AppendedList ==
    ASSUME NEW S, NEW s \in Seq(S), NEW e \in S, NEW t, t = Append(s, e)
    PROVE  /\ t \in Seq(S) /\ Len(s) \in Nat /\ Len(t) = Len(s) + 1
           /\ t[Len(s) + 1] = e /\ \A k \in 1..Len(s) : t[k] = s[k]
OBVIOUS

\* The first n elements of a list.
LEMMA StartOfList ==
    ASSUME NEW S, NEW s \in Seq(S), NEW n \in 0..Len(s), NEW t, t = SubSeq(s, 1, n)
    PROVE  t \in Seq(S) /\ Len(t) = n /\ \A k \in 1..n : t[k] = s[k]
OBVIOUS

Value == [constant : SUBSET Int, uses : Nat]

\* What value i of the analysis and number x of the machine have to do with each other.
Stands(values, i, x) ==
    /\ i \in 1..Len(values) /\ x \in I32
    /\ \A c \in values[i].constant : Modulo(c) = x

Keeps(values, new) == \A i, x : Stands(values, i, x) => Stands(new, i, x)

\* The analysis agrees with the machine.
Agreement(values, variables, indices, stack, locals) ==
    /\ values \in Seq(Value)
    /\ indices \in Seq(Nat) /\ stack \in Seq(I32) /\ Len(indices) = Len(stack)
    /\ \A k \in 1..Len(stack) : Stands(values, indices[k], stack[k])
    /\ DOMAIN variables = DOMAIN locals
    /\ \A l \in DOMAIN locals : Stands(values, variables[l], locals[l])

\* Counting a use of a value changes no constant.
LEMMA UsesDoNotMatter ==
    ASSUME NEW values \in Seq(Value), NEW i \in 1..Len(values), NEW new,
           new = [values EXCEPT ![i].uses = @ + 1]
    PROVE  /\ new \in Seq(Value)
           /\ Keeps(values, new)
<1> DEFINE v == [values[i] EXCEPT !.uses = @ + 1]
<1>1. values[i] \in Value
    OBVIOUS
<1>2. v \in Value /\ v.constant = values[i].constant
    <2> DEFINE w == values[i]
    <2>1. w \in Value /\ v = [w EXCEPT !.uses = w.uses + 1]
        BY <1>1
    <2> HIDE DEF w, v
    <2>2. w.uses + 1 \in Nat
        BY <2>1 DEF Value
    <2>3. v \in Value /\ v.constant = w.constant
        BY <2>1, <2>2 DEF Value
    <2> QED BY <2>3 DEF w
<1>3. new = [values EXCEPT ![i] = v]
    OBVIOUS
<1> HIDE DEF v
<1>4. new \in Seq(Value) /\ Len(new) = Len(values)
    BY <1>2, <1>3
<1>5. \A j \in 1..Len(values) : new[j] = IF j = i THEN v ELSE values[j]
    BY <1>3
<1>6. \A j \in 1..Len(values) : new[j].constant = values[j].constant
    BY <1>2, <1>5
<1> QED BY <1>4, <1>6 DEF Keeps, Stands

\* A new value leaves the earlier ones alone and stands for the number its constant is.
LEMMA MoreValues ==
    ASSUME NEW values \in Seq(Value), NEW v \in Value, NEW new, new = Append(values, v)
    PROVE  /\ new \in Seq(Value)
           /\ Keeps(values, new)
           /\ \A x \in I32 : (\A c \in v.constant : Modulo(c) = x) => Stands(new, Len(values) + 1, x)
<1>1. /\ new \in Seq(Value) /\ Len(values) \in Nat /\ Len(new) = Len(values) + 1
      /\ new[Len(values) + 1] = v /\ \A k \in 1..Len(values) : new[k] = values[k]
    BY AppendedList
<1> QED BY <1>1 DEF Keeps, Stands

\* The analysis still agrees when values were only added or counted.
LEMMA AgreementKept ==
    ASSUME NEW values, NEW variables, NEW indices, NEW stack, NEW locals,
           Agreement(values, variables, indices, stack, locals),
           NEW new \in Seq(Value), Keeps(values, new)
    PROVE  Agreement(new, variables, indices, stack, locals)
BY DEF Agreement, Keeps

\* Both sides push.
LEMMA AgreementPush ==
    ASSUME NEW values, NEW variables, NEW indices, NEW stack, NEW locals,
           Agreement(values, variables, indices, stack, locals),
           NEW i, NEW x, Stands(values, i, x)
    PROVE  Agreement(values, variables, Append(indices, i), Append(stack, x), locals)
<1> DEFINE newI == Append(indices, i)
           newS == Append(stack, x)
<1>1. indices \in Seq(Nat) /\ stack \in Seq(I32) /\ Len(indices) = Len(stack)
    BY DEF Agreement
<1>2. i \in Nat /\ x \in I32
    BY DEF Stands, Agreement
<1>3. /\ newI \in Seq(Nat) /\ Len(newI) = Len(indices) + 1
      /\ newI[Len(indices) + 1] = i /\ \A k \in 1..Len(indices) : newI[k] = indices[k]
    BY <1>1, <1>2, AppendedList
<1>4. /\ newS \in Seq(I32) /\ Len(newS) = Len(stack) + 1 /\ Len(stack) \in Nat
      /\ newS[Len(stack) + 1] = x /\ \A k \in 1..Len(stack) : newS[k] = stack[k]
    BY <1>1, <1>2, AppendedList
<1> HIDE DEF newI, newS
<1>5. ASSUME NEW k \in 1..Len(newS)
      PROVE  Stands(values, newI[k], newS[k])
    <2>1. CASE k = Len(stack) + 1
        BY <2>1, <1>1, <1>3, <1>4
    <2>2. CASE k \in 1..Len(stack)
        BY <2>2, <1>1, <1>3, <1>4 DEF Agreement
    <2> QED BY <2>1, <2>2, <1>4
<1>6. Agreement(values, variables, newI, newS, locals)
    BY <1>1, <1>3, <1>4, <1>5 DEF Agreement
<1> QED BY <1>6 DEF newI, newS

\* Both sides pop.
LEMMA AgreementPop ==
    ASSUME NEW values, NEW variables, NEW indices, NEW stack, NEW locals,
           Agreement(values, variables, indices, stack, locals), NEW n \in 0..Len(stack)
    PROVE  Agreement(values, variables, SubSeq(indices, 1, n), SubSeq(stack, 1, n), locals)
<1> DEFINE newI == SubSeq(indices, 1, n)
           newS == SubSeq(stack, 1, n)
<1>1. indices \in Seq(Nat) /\ stack \in Seq(I32) /\ Len(indices) = Len(stack) /\ n \in 0..Len(indices)
    BY DEF Agreement
<1>2. newI \in Seq(Nat) /\ Len(newI) = n /\ \A k \in 1..n : newI[k] = indices[k]
    BY <1>1, StartOfList
<1>3. newS \in Seq(I32) /\ Len(newS) = n /\ \A k \in 1..n : newS[k] = stack[k]
    BY <1>1, StartOfList
<1> HIDE DEF newI, newS
<1>4. ASSUME NEW k \in 1..Len(newS)
      PROVE  Stands(values, newI[k], newS[k])
    <2>1. k \in 1..Len(stack) /\ newI[k] = indices[k] /\ newS[k] = stack[k]
        BY <1>1, <1>2, <1>3
    <2> QED BY <2>1 DEF Agreement
<1>5. Agreement(values, variables, newI, newS, locals)
    BY <1>1, <1>2, <1>3, <1>4 DEF Agreement
<1> QED BY <1>5 DEF newI, newS

Arithmetic == {"add", "sub", "mul", "eq", "ne", "lt_u", "ge_u"}

\* WrapI32 keeps a number modulo the width of an i32.
LEMMA ModuloIsI32 ==
    ASSUME NEW n \in Int
    PROVE  /\ Modulo(n) \in I32 /\ WrapI32(n) \in Int /\ Modulo(WrapI32(n)) = Modulo(n)
           /\ Modulo(Modulo(n)) = Modulo(n)
<1> DEFINE M == 2 * Half
           r == n % M
           q == n \div M
<1>1. M \in Nat \ {0} /\ Half \in Nat /\ Half <= M
    BY HalfAssumption
<1>2. q \in Int /\ r \in 0..(M - 1) /\ n = M * q + r
    BY <1>1, Division, Zenon
<1>3. Modulo(n) = r /\ WrapI32(n) = IF r >= Half THEN r - M ELSE r
    BY DEF Modulo, WrapI32
<1> HIDE DEF r, q
<1>4. r % M = r
    <2>1. r = M * 0 + r
        BY <1>1, <1>2
    <2> HIDE DEF M
    <2> QED BY <2>1, <1>1, <1>2, Remainder
<1>5. (r - M) % M = r
    <2>1. r - M = M * (-1) + r /\ r - M \in Int /\ -1 \in Int
        BY <1>1, <1>2
    <2> DEFINE u == r - M
               k == -1
    <2>2. u \in Int /\ k \in Int /\ u = M * k + r
        BY <2>1
    <2> HIDE DEF M, u, k
    <2>3. u % M = r
        BY <2>2, <1>1, <1>2, Remainder
    <2> QED BY <2>3 DEF u
<1>6. WrapI32(n) \in Int /\ r \in I32
    BY <1>1, <1>2, <1>3 DEF I32
<1>7. Modulo(WrapI32(n)) = r /\ Modulo(r) = r
    BY <1>3, <1>4, <1>5 DEF Modulo
<1> QED BY <1>3, <1>6, <1>7

\* The result of a comparison is an i32.
LEMMA TruthIsI32 ==
    ASSUME NEW b \in BOOLEAN
    PROVE  Truth(b) \in I32
BY HalfAssumption DEF Truth, I32

\* The constant that the analysis folds is what the machine computes, whichever numbers
\* stand for the operands: wrapped arithmetic and comparisons.
LEMMA FoldComputes ==
    ASSUME NEW name \in Arithmetic, NEW X \in I32, NEW Y \in I32
    PROVE  /\ Compute(name, X, Y) \in I32
           /\ \A x, y \in Int : Modulo(x) = X /\ Modulo(y) = Y =>
                 \A c \in Fold(name, x, y) : c \in Int /\ Modulo(c) = Compute(name, X, Y)
<1>1. X \in Int /\ Y \in Int
    BY HalfAssumption DEF I32
<1>2. X + Y \in Int /\ X - Y \in Int /\ X * Y \in Int
    BY <1>1
<1>3. ASSUME NEW x \in Int, NEW y \in Int, Modulo(x) = X, Modulo(y) = Y
      PROVE  /\ Modulo(x + y) = Modulo(X + Y) /\ Modulo(x - y) = Modulo(X - Y)
             /\ Modulo(x * y) = Modulo(X * Y)
    <2> DEFINE M == 2 * Half
    <2>1. M \in Nat \ {0}
        BY HalfAssumption
    <2>2. x % M = X /\ y % M = Y
        BY <1>3 DEF Modulo
    <2> HIDE DEF M
    <2>3. /\ (x + y) % M = (X + Y) % M
          /\ (x - y) % M = (X - Y) % M
          /\ (x * y) % M = (X * Y) % M
        BY <2>1, <2>2, Remainders, Zenon
    <2> QED BY <2>3 DEF M, Modulo
<1>4. CASE name = "add"
    <2>1. Compute(name, X, Y) = Modulo(X + Y)
        BY <1>4 DEF Compute
    <2>2. ASSUME NEW x \in Int, NEW y \in Int, Modulo(x) = X, Modulo(y) = Y, NEW c \in Fold(name, x, y)
          PROVE  c \in Int /\ Modulo(c) = Modulo(X + Y)
        <3>1. c = WrapI32(x + y) /\ x + y \in Int
            BY <1>4, <2>2 DEF Fold
        <3>2. WrapI32(x + y) \in Int /\ Modulo(WrapI32(x + y)) = Modulo(x + y)
            BY <3>1, ModuloIsI32
        <3> QED BY <3>1, <3>2, <1>3, <2>2
    <2> QED BY <2>1, <2>2, <1>2, ModuloIsI32
<1>5. CASE name = "sub"
    <2>1. Compute(name, X, Y) = Modulo(X - Y)
        BY <1>5 DEF Compute
    <2>2. ASSUME NEW x \in Int, NEW y \in Int, Modulo(x) = X, Modulo(y) = Y, NEW c \in Fold(name, x, y)
          PROVE  c \in Int /\ Modulo(c) = Modulo(X - Y)
        <3>1. c = WrapI32(x - y) /\ x - y \in Int
            BY <1>5, <2>2 DEF Fold
        <3>2. WrapI32(x - y) \in Int /\ Modulo(WrapI32(x - y)) = Modulo(x - y)
            BY <3>1, ModuloIsI32
        <3> QED BY <3>1, <3>2, <1>3, <2>2
    <2> QED BY <2>1, <2>2, <1>2, ModuloIsI32
<1>6. CASE name = "mul"
    <2>1. Compute(name, X, Y) = Modulo(X * Y)
        BY <1>6 DEF Compute
    <2>2. ASSUME NEW x \in Int, NEW y \in Int, Modulo(x) = X, Modulo(y) = Y, NEW c \in Fold(name, x, y)
          PROVE  c \in Int /\ Modulo(c) = Modulo(X * Y)
        <3>1. c = WrapI32(x * y) /\ x * y \in Int
            BY <1>6, <2>2 DEF Fold
        <3>2. WrapI32(x * y) \in Int /\ Modulo(WrapI32(x * y)) = Modulo(x * y)
            BY <3>1, ModuloIsI32
        <3> QED BY <3>1, <3>2, <1>3, <2>2
    <2> QED BY <2>1, <2>2, <1>2, ModuloIsI32
<1>7. CASE name \in {"eq", "ne", "lt_u", "ge_u"}
    <2>1. \A x, y : Fold(name, x, y) = {}
        BY <1>7 DEF Fold
    <2>2. Compute(name, X, Y) \in {0, 1}
        BY <1>7, <1>1 DEF Compute, Truth
    <2>3. 0 \in I32 /\ 1 \in I32
        BY HalfAssumption DEF I32
    <2> QED BY <2>1, <2>2, <2>3
<1> QED BY <1>4, <1>5, <1>6, <1>7 DEF Arithmetic

State(values, variables, indices, d, done) ==
    [values |-> values, locals |-> variables, stack |-> indices, diagnostics |-> d, done |-> done]

Machine(stack, locals, defined) == [stack |-> stack, locals |-> locals, defined |-> defined]

IsState(s) == \E v, l, st, d, e : s = State(v, l, st, d, e)

Off(b) == b = FALSE
On(b) == b = TRUE

\* Define on the parts of the analysis' state.
LEMMA DefineState ==
    ASSUME NEW v, NEW l, NEW st, NEW d, NEW e, NEW C
    PROVE  Define(State(v, l, st, d, e), C) =
              State(Append(v, [constant |-> C, uses |-> 0]), l, Append(st, Len(v) + 1), d, e)
<1> DEFINE s == State(v, l, st, d, e)
           w == Append(v, [constant |-> C, uses |-> 0])
           i == Append(st, Len(v) + 1)
<1>1. s.values = v /\ s.stack = st
    BY DEF State
<1>2. Define(s, C) = [s EXCEPT !.values = w, !.stack = i]
    <2>1. Define(s, C) = [s EXCEPT !.values = Append(s.values, [constant |-> C, uses |-> 0]),
                                   !.stack = Append(s.stack, Len(s.values) + 1)]
        BY DEF Define
    <2> HIDE DEF s
    <2> QED BY <1>1, <2>1
<1> HIDE DEF w, i
<1>3. [s EXCEPT !.values = w] = State(w, l, st, d, e)
    BY DEF State
<1>4. [State(w, l, st, d, e) EXCEPT !.stack = i] = State(w, l, i, d, e)
    BY DEF State
<1> HIDE DEF s
<1>5. [s EXCEPT !.values = w, !.stack = i] = [[s EXCEPT !.values = w] EXCEPT !.stack = i]
    OBVIOUS
<1>6. Define(s, C) = State(w, l, i, d, e)
    BY <1>2, <1>3, <1>4, <1>5, Zenon
<1> QED BY <1>6 DEF s, w, i

\* PopUse on the parts of the analysis' state.
LEMMA PopUseState ==
    ASSUME NEW v, NEW l, NEW st, NEW d, NEW e, st # <<>>
    PROVE  PopUse(State(v, l, st, d, e)) =
              State([v EXCEPT ![LastOf(st)].uses = @ + 1], l, AllButLast(st), d, e)
BY Zenon DEF PopUse, State

\* A pop takes the top of the stack and counts a use.
LEMMA PopUseFields ==
    ASSUME NEW s, IsState(s), s.values \in Seq(Value), s.stack # <<>>, LastOf(s.stack) \in 1..Len(s.values)
    PROVE  /\ IsState(PopUse(s)) /\ PopUse(s).done = s.done
           /\ PopUse(s).values \in Seq(Value) /\ Keeps(s.values, PopUse(s).values)
           /\ PopUse(s).stack = AllButLast(s.stack) /\ PopUse(s).locals = s.locals
<1>1. PICK v, l, st, d, e : s = State(v, l, st, d, e)
    BY DEF IsState
<1>2. s.values = v /\ s.locals = l /\ s.stack = st /\ s.done = e
    BY <1>1 DEF State
<1> DEFINE i == LastOf(st)
           w == [v EXCEPT ![i].uses = @ + 1]
           t == State(w, l, AllButLast(st), d, e)
<1>3. PopUse(s) = t
    BY <1>1, <1>2, PopUseState
<1>4. w \in Seq(Value) /\ Keeps(v, w)
    <2>1. v \in Seq(Value) /\ i \in 1..Len(v) /\ w = [v EXCEPT ![i].uses = @ + 1]
        BY <1>2
    <2> HIDE DEF i, w
    <2> QED BY <2>1, UsesDoNotMatter, Zenon
<1> HIDE DEF w
<1>5. t.values = w /\ t.locals = l /\ t.stack = AllButLast(st) /\ t.done = e
    BY DEF State
<1>6. IsState(t)
    BY DEF IsState
<1> HIDE DEF t
<1> QED BY <1>2, <1>3, <1>4, <1>5, <1>6

\* A definition pushes a new value.
LEMMA DefineFields ==
    ASSUME NEW s, IsState(s), s.values \in Seq(Value), NEW C \in SUBSET Int
    PROVE  /\ IsState(Define(s, C)) /\ Define(s, C).done = s.done
           /\ Define(s, C).values \in Seq(Value) /\ Keeps(s.values, Define(s, C).values)
           /\ Define(s, C).stack = Append(s.stack, Len(s.values) + 1)
           /\ Define(s, C).locals = s.locals
           /\ \A x \in I32 : (\A c \in C : Modulo(c) = x) =>
                 Stands(Define(s, C).values, Len(s.values) + 1, x)
<1>1. PICK v, l, st, d, e : s = State(v, l, st, d, e)
    BY DEF IsState
<1>2. s.values = v /\ s.locals = l /\ s.stack = st /\ s.done = e
    BY <1>1 DEF State
<1> DEFINE u == [constant |-> C, uses |-> 0]
           w == Append(v, u)
           n == Append(st, Len(v) + 1)
           t == State(w, l, n, d, e)
<1>3. Define(s, C) = t
    BY <1>1, DefineState
<1>4. u \in Value /\ u.constant = C
    BY DEF Value
<1> HIDE DEF u
<1>5. /\ w \in Seq(Value) /\ Keeps(v, w)
      /\ \A x \in I32 : (\A c \in u.constant : Modulo(c) = x) => Stands(w, Len(v) + 1, x)
    BY <1>2, <1>4, MoreValues, Zenon
<1> HIDE DEF w, n
<1>6. t.values = w /\ t.locals = l /\ t.stack = n /\ t.done = e
    BY DEF State
<1>7. IsState(t)
    BY DEF IsState
<1> HIDE DEF t
<1> QED BY <1>2, <1>3, <1>4, <1>5, <1>6, <1>7 DEF n

\* An assignment keeps the top of the stack in a local.
LEMMA StoreFields ==
    ASSUME NEW s, IsState(s), s.stack # <<>>, NEW x
    PROVE  /\ IsState(Store(s, x)) /\ Store(s, x).done = s.done
           /\ Store(s, x).values = s.values /\ Store(s, x).stack = s.stack
           /\ Store(s, x).locals = [k \in DOMAIN s.locals \cup {x} |->
                                       IF k = x THEN LastOf(s.stack) ELSE s.locals[k]]
<1>1. PICK v, l, st, d, e : s = State(v, l, st, d, e)
    BY DEF IsState
<1>2. s.values = v /\ s.locals = l /\ s.stack = st /\ s.done = e
    BY <1>1 DEF State
<1> DEFINE new == [k \in DOMAIN l \cup {x} |-> IF k = x THEN LastOf(st) ELSE l[k]]
           t == State(v, new, st, d, e)
<1>3. Store(s, x) = [s EXCEPT !.locals = new]
    BY <1>2 DEF Store
<1> HIDE DEF new
<1>3a. [s EXCEPT !.locals = new] = t
    BY <1>1 DEF State
<1>4. t.values = v /\ t.locals = new /\ t.stack = st /\ t.done = e
    BY DEF State
<1>5. IsState(t)
    BY DEF IsState
<1> HIDE DEF t
<1> QED BY <1>2, <1>3, <1>3a, <1>4, <1>5 DEF new

\* Another stack.
LEMMA StackFields ==
    ASSUME NEW s, IsState(s), NEW x
    PROVE  LET t == [s EXCEPT !.stack = x]
           IN  /\ IsState(t) /\ t.done = s.done /\ t.values = s.values /\ t.locals = s.locals
               /\ t.stack = x
<1>1. PICK v, l, st, d, e : s = State(v, l, st, d, e)
    BY DEF IsState
<1> DEFINE t == State(v, l, x, d, e)
<1>2. [s EXCEPT !.stack = x] = t
    BY <1>1 DEF State
<1>3. s.values = v /\ s.locals = l /\ s.stack = st /\ s.done = e
    BY <1>1 DEF State
<1>4. t.values = v /\ t.locals = l /\ t.stack = x /\ t.done = e
    BY DEF State
<1>5. IsState(t)
    BY DEF IsState
<1> HIDE DEF t
<1> QED BY <1>2, <1>3, <1>4, <1>5

\* A read of a local pushes its value and counts a use.
LEMMA GetFields ==
    ASSUME NEW s, IsState(s), s.values \in Seq(Value), NEW i \in 1..Len(s.values)
    PROVE  LET t == [s EXCEPT !.stack = Append(@, i), !.values[i].uses = @ + 1]
           IN  /\ IsState(t) /\ t.done = s.done
               /\ t.values \in Seq(Value) /\ Keeps(s.values, t.values)
               /\ t.stack = Append(s.stack, i) /\ t.locals = s.locals
<1>1. PICK v, l, st, d, e : s = State(v, l, st, d, e)
    BY DEF IsState
<1>2. s.values = v /\ s.locals = l /\ s.stack = st /\ s.done = e
    BY <1>1 DEF State
<1> DEFINE n == Append(st, i)
           w == [v EXCEPT ![i].uses = @ + 1]
           t == State(w, l, n, d, e)
<1>3. [s EXCEPT !.stack = Append(@, i), !.values[i].uses = @ + 1] = [s EXCEPT !.stack = n, !.values = w]
    BY <1>2, Zenon
<1>4. w \in Seq(Value) /\ Keeps(v, w)
    BY <1>2, UsesDoNotMatter
<1> HIDE DEF n, w
<1>5. [s EXCEPT !.stack = n, !.values = w] = [[s EXCEPT !.stack = n] EXCEPT !.values = w]
    OBVIOUS
<1>6. [s EXCEPT !.stack = n] = State(v, l, n, d, e)
    BY <1>1 DEF State
<1>7. [State(v, l, n, d, e) EXCEPT !.values = w] = t
    BY DEF State
<1>8. t.values = w /\ t.locals = l /\ t.stack = n /\ t.done = e
    BY DEF State
<1>9. IsState(t)
    BY DEF IsState
<1> HIDE DEF t
<1>10. [s EXCEPT !.stack = Append(@, i), !.values[i].uses = @ + 1] = t
    BY <1>3, <1>5, <1>6, <1>7, Zenon
<1> QED BY <1>2, <1>4, <1>8, <1>9, <1>10, Zenon DEF n

Lost(m) == \E stack, locals, b : m = Machine(stack, locals, b) /\ b = FALSE

\* The machine stops being defined ...
LEMMA ExecuteLoses ==
    ASSUME NEW stack, NEW locals, NEW b, NEW m, m = Machine(stack, locals, b), NEW op,
           ~b \/ Len(stack) < Needs(op)
    PROVE  Lost(Execute(m, op))
<1>1. m.stack = stack /\ m.locals = locals /\ m.defined = b
    BY DEF Machine
<1>2. PICK c : c = FALSE
    BY Zenon
<1>3. Execute(m, op) = [m EXCEPT !.defined = FALSE]
    BY <1>1 DEF Execute
<1>4. [m EXCEPT !.defined = c] = Machine(stack, locals, c)
    BY DEF Machine
<1> QED BY <1>2, <1>3, <1>4 DEF Lost

\* ... or executes the operator.
Executed(stack, locals, b, op) ==
    LET n == Len(stack)
        Assigned == [l \in DOMAIN locals \cup {op[2]} |-> IF l = op[2] THEN stack[n] ELSE locals[l]]
    IN  CASE op[1] = "const"     -> Machine(Append(stack, Modulo(op[2])), locals, b)
          [] op[1] = "local.get" -> Machine(Append(stack, locals[op[2]]), locals, b)
          [] op[1] = "local.set" -> Machine(SubSeq(stack, 1, n - 1), Assigned, b)
          [] op[1] = "local.tee" -> Machine(stack, Assigned, b)
          [] op[1] = "drop"      -> Machine(SubSeq(stack, 1, n - 1), locals, b)
          [] op[1] = "eqz"       ->
                Machine(Append(SubSeq(stack, 1, n - 1), Truth(stack[n] = 0)), locals, b)
          [] OTHER ->
                Machine(Append(SubSeq(stack, 1, n - 2), Compute(op[1], stack[n - 1], stack[n])),
                        locals, b)

\* A step of the machine that neither underflows nor reads an initial zero.
LEMMA ExecuteCases ==
    ASSUME NEW stack, NEW locals, NEW b, NEW m, m = Machine(stack, locals, b), NEW op,
           On(b), ~(Len(stack) < Needs(op)),
           ~(op[1] = "local.get" /\ op[2] \notin DOMAIN locals)
    PROVE  Execute(m, op) = Executed(stack, locals, b, op)
<1> DEFINE n == Len(stack)
           Assigned == [l \in DOMAIN locals \cup {op[2]} |->
                           IF l = op[2] THEN stack[n] ELSE locals[l]]
<1>1. m.stack = stack /\ m.locals = locals /\ m.defined = b
    BY DEF Machine
<1>2. m.defined
    BY <1>1 DEF On
<1> DEFINE local == Local(m, op[2])
<1>2a. op[1] = "local.get" => local = locals[op[2]]
    BY <1>1 DEF Local
<1> HIDE DEF local
<1>3. Execute(m, op) =
        CASE op[1] = "const"     -> [m EXCEPT !.stack = Append(stack, Modulo(op[2]))]
          [] op[1] = "local.get" -> [m EXCEPT !.stack = Append(stack, local)]
          [] op[1] = "local.set" -> [m EXCEPT !.locals = Assigned, !.stack = SubSeq(stack, 1, n - 1)]
          [] op[1] = "local.tee" -> [m EXCEPT !.locals = Assigned]
          [] op[1] = "drop"      -> [m EXCEPT !.stack = SubSeq(stack, 1, n - 1)]
          [] op[1] = "eqz"       ->
                [m EXCEPT !.stack = Append(SubSeq(stack, 1, n - 1), Truth(stack[n] = 0))]
          [] OTHER ->
                [m EXCEPT !.stack = Append(SubSeq(stack, 1, n - 2),
                                           Compute(op[1], stack[n - 1], stack[n]))]
    BY <1>1, <1>2 DEF Execute, local
<1>4. ASSUME NEW x, NEW y
      PROVE  /\ [m EXCEPT !.stack = x] = Machine(x, locals, b)
             /\ [m EXCEPT !.locals = x] = Machine(stack, x, b)
             /\ [m EXCEPT !.locals = y, !.stack = x] = Machine(x, y, b)
    <2>1. /\ [m EXCEPT !.stack = x] = Machine(x, locals, b)
          /\ [m EXCEPT !.locals = x] = Machine(stack, x, b)
        BY DEF Machine
    <2>2. [m EXCEPT !.locals = y] = Machine(stack, y, b)
        BY DEF Machine
    <2>3. [Machine(stack, y, b) EXCEPT !.stack = x] = Machine(x, y, b)
        BY DEF Machine
    <2>4. [m EXCEPT !.locals = y, !.stack = x] = [[m EXCEPT !.locals = y] EXCEPT !.stack = x]
        OBVIOUS
    <2> QED BY <2>1, <2>2, <2>3, <2>4, Zenon
<1>5. CASE op[1] = "local.get"
    <2>1. Execute(m, op) = Machine(Append(stack, local), locals, b)
        BY <1>3, <1>4, <1>5, Zenon
    <2>2. Executed(stack, locals, b, op) = Machine(Append(stack, locals[op[2]]), locals, b)
        BY <1>5, Zenon DEF Executed
    <2> QED BY <1>2a, <1>5, <2>1, <2>2, Zenon
<1>6. CASE op[1] # "local.get"
    BY <1>3, <1>4, <1>6, Zenon DEF Executed
<1> QED BY <1>5, <1>6

Simulates(s, stack, locals) ==
    /\ IsState(s) /\ Off(s.done)
    /\ Agreement(s.values, s.locals, s.stack, stack, locals)

\* Both stacks have a top at the same time, and the tops stand for each other.
LEMMA TopOfStack ==
    ASSUME NEW s, NEW stack, NEW locals, Simulates(s, stack, locals), Len(stack) > 0
    PROVE  /\ Len(stack) \in Nat /\ Len(s.stack) = Len(stack) /\ s.stack # <<>>
           /\ LastOf(s.stack) = s.stack[Len(stack)] /\ s.values \in Seq(Value)
           /\ Stands(s.values, LastOf(s.stack), stack[Len(stack)])
           /\ LastOf(s.stack) \in 1..Len(s.values)
<1> DEFINE n == Len(stack)
<1>1. /\ s.stack \in Seq(Nat) /\ stack \in Seq(I32) /\ Len(s.stack) = n /\ n \in Nat /\ n \in 1..n
      /\ s.values \in Seq(Value)
    BY DEF Simulates, Agreement
<1>2. s.stack # <<>> /\ LastOf(s.stack) = s.stack[n]
    BY <1>1 DEF LastOf
<1>3. Stands(s.values, s.stack[n], stack[n])
    BY <1>1 DEF Simulates, Agreement
<1> QED BY <1>1, <1>2, <1>3 DEF Stands

\* The analysis pops when the machine does.
LEMMA PopSimulates ==
    ASSUME NEW s, NEW stack, NEW locals, Simulates(s, stack, locals), Len(stack) > 0
    PROVE  /\ Simulates(PopUse(s), SubSeq(stack, 1, Len(stack) - 1), locals)
           /\ PopUse(s).stack = SubSeq(s.stack, 1, Len(stack) - 1)
           /\ Keeps(s.values, PopUse(s).values)
<1> DEFINE t == PopUse(s)
           n == Len(stack)
<1>1. /\ n \in Nat /\ Len(s.stack) = n /\ s.stack # <<>> /\ s.values \in Seq(Value)
      /\ LastOf(s.stack) \in 1..Len(s.values)
    BY TopOfStack
<1>2. /\ IsState(t) /\ t.done = s.done /\ t.values \in Seq(Value) /\ Keeps(s.values, t.values)
      /\ t.stack = AllButLast(s.stack) /\ t.locals = s.locals
    BY <1>1, PopUseFields DEF Simulates
<1> HIDE DEF t
<1>3. t.stack = SubSeq(s.stack, 1, n - 1)
    BY <1>1, <1>2 DEF AllButLast
<1>4. Agreement(t.values, s.locals, s.stack, stack, locals)
    BY <1>2, AgreementKept DEF Simulates
<1>5. Agreement(t.values, s.locals, SubSeq(s.stack, 1, n - 1), SubSeq(stack, 1, n - 1), locals)
    <2>1. n - 1 \in 0..Len(stack)
        BY <1>1
    <2> QED BY <2>1, <1>4, AgreementPop
<1>6. Simulates(t, SubSeq(stack, 1, n - 1), locals)
    BY <1>2, <1>3, <1>5 DEF Simulates
<1> QED BY <1>2, <1>3, <1>6 DEF t

\* The analysis pushes a value, known or unknown, when the machine pushes its number.
LEMMA DefineSimulates ==
    ASSUME NEW s, NEW stack, NEW locals, Simulates(s, stack, locals),
           NEW C \in SUBSET Int, NEW x \in I32, \A c \in C : Modulo(c) = x
    PROVE  Simulates(Define(s, C), Append(stack, x), locals)
<1> DEFINE t == Define(s, C)
           i == Len(s.values) + 1
<1>1. /\ IsState(t) /\ t.done = s.done /\ t.values \in Seq(Value) /\ Keeps(s.values, t.values)
      /\ t.stack = Append(s.stack, i) /\ t.locals = s.locals /\ Stands(t.values, i, x)
    BY DefineFields, Zenon DEF Simulates, Agreement
<1> HIDE DEF t, i
<1>2. Agreement(t.values, s.locals, s.stack, stack, locals)
    BY <1>1, AgreementKept DEF Simulates
<1>3. Agreement(t.values, s.locals, Append(s.stack, i), Append(stack, x), locals)
    BY <1>1, <1>2, AgreementPush
<1>4. Simulates(t, Append(stack, x), locals)
    BY <1>1, <1>3 DEF Simulates
<1> QED BY <1>4 DEF t

\* local.get.
LEMMA GetSimulates ==
    ASSUME NEW s, NEW stack, NEW locals, Simulates(s, stack, locals),
           NEW op, op[1] = "local.get", op[2] \in DOMAIN locals
    PROVE  Simulates(SsaStep(s, op), Append(stack, locals[op[2]]), locals)
<1> DEFINE i == s.locals[op[2]]
           x == locals[op[2]]
           t == [s EXCEPT !.stack = Append(@, i), !.values[i].uses = @ + 1]
<1>1. op[2] \in DOMAIN s.locals /\ Stands(s.values, i, x) /\ s.values \in Seq(Value)
    BY DEF Simulates, Agreement
<1>2. SsaStep(s, op) = t
    BY <1>1 DEF Simulates, SsaStep, Binary, Off
<1>3. i \in 1..Len(s.values)
    BY <1>1 DEF Stands
<1> HIDE DEF i, x
<1>4. /\ IsState(t) /\ t.done = s.done /\ t.values \in Seq(Value) /\ Keeps(s.values, t.values)
      /\ t.stack = Append(s.stack, i) /\ t.locals = s.locals
    BY <1>1, <1>3, GetFields, Zenon DEF Simulates
<1> HIDE DEF t
<1>5. Agreement(t.values, s.locals, s.stack, stack, locals)
    BY <1>4, AgreementKept DEF Simulates
<1>6. Stands(t.values, i, x)
    BY <1>1, <1>4 DEF Keeps
<1>7. Agreement(t.values, s.locals, Append(s.stack, i), Append(stack, x), locals)
    BY <1>5, <1>6, AgreementPush
<1>8. Simulates(t, Append(stack, x), locals)
    BY <1>4, <1>7 DEF Simulates
<1> QED BY <1>2, <1>8 DEF x

\* An assignment to a local, before the pop.
LEMMA StoreSimulates ==
    ASSUME NEW s, NEW stack, NEW locals, Simulates(s, stack, locals), Len(stack) > 0, NEW l,
           NEW new,
           new = [k \in DOMAIN locals \cup {l} |-> IF k = l THEN stack[Len(stack)] ELSE locals[k]]
    PROVE  Simulates(Store(s, l), stack, new) /\ Store(s, l).stack = s.stack
<1> DEFINE t == Store(s, l)
           x == stack[Len(stack)]
           i == LastOf(s.stack)
<1>1. s.stack # <<>> /\ Stands(s.values, i, x)
    BY TopOfStack
<1>2. /\ IsState(t) /\ t.done = s.done /\ t.values = s.values /\ t.stack = s.stack
      /\ t.locals = [k \in DOMAIN s.locals \cup {l} |-> IF k = l THEN i ELSE s.locals[k]]
    BY <1>1, StoreFields, Zenon DEF Simulates
<1>3. new = [k \in DOMAIN locals \cup {l} |-> IF k = l THEN x ELSE locals[k]]
    OBVIOUS
<1> HIDE DEF t, x, i
<1>4. Agreement(s.values, s.locals, s.stack, stack, locals)
    BY DEF Simulates
<1>5. Agreement(s.values, t.locals, s.stack, stack, new)
    <2>1. /\ DOMAIN t.locals = DOMAIN s.locals \cup {l} /\ DOMAIN new = DOMAIN locals \cup {l}
          /\ \A k \in DOMAIN s.locals \cup {l} : t.locals[k] = IF k = l THEN i ELSE s.locals[k]
          /\ \A k \in DOMAIN locals \cup {l} : new[k] = IF k = l THEN x ELSE locals[k]
        BY <1>2, <1>3
    <2> QED BY <1>1, <1>4, <2>1, Zenon DEF Agreement
<1>6. Simulates(t, stack, new)
    BY <1>2, <1>5 DEF Simulates
<1> QED BY <1>2, <1>6 DEF t

\* local.set and local.tee
LEMMA AssignSimulates ==
    ASSUME NEW s, NEW stack, NEW locals, Simulates(s, stack, locals), Len(stack) > 0, NEW op,
           NEW new,
           new = [k \in DOMAIN locals \cup {op[2]} |->
                     IF k = op[2] THEN stack[Len(stack)] ELSE locals[k]]
    PROVE  /\ op[1] = "local.set" =>
                 Simulates(SsaStep(s, op), SubSeq(stack, 1, Len(stack) - 1), new)
           /\ op[1] = "local.tee" => Simulates(SsaStep(s, op), stack, new)
<1> DEFINE u == Store(s, op[2])
           t == PopUse(u)
           n == Len(stack)
           i == LastOf(s.stack)
           x == stack[n]
           short == SubSeq(stack, 1, n - 1)
<1>1. Simulates(u, stack, new) /\ u.stack = s.stack
    BY StoreSimulates, Zenon
<1>2. /\ n \in Nat /\ s.stack # <<>> /\ Len(s.stack) = n
      /\ LastOf(u.stack) = i /\ Stands(u.values, i, x) /\ u.values \in Seq(Value)
    <2> HIDE DEF u
    <2>1. /\ n \in Nat /\ s.stack # <<>> /\ Len(s.stack) = n
        BY TopOfStack
    <2>2. Stands(u.values, LastOf(u.stack), x) /\ u.values \in Seq(Value)
        BY <1>1, TopOfStack
    <2> QED BY <1>1, <2>1, <2>2
<1>3. Off(s.done)
    BY DEF Simulates
<1>4. /\ op[1] = "local.set" => SsaStep(s, op) = t
      /\ op[1] = "local.tee" => SsaStep(s, op) = [t EXCEPT !.stack = Append(@, i)]
    BY <1>2, <1>3 DEF SsaStep, Binary, Off
<1> HIDE DEF u
<1>5. Simulates(t, short, new) /\ Keeps(u.values, t.values)
    BY <1>1, PopSimulates
<1> HIDE DEF t
<1>6. Simulates([t EXCEPT !.stack = Append(@, i)], stack, new)
    <2> DEFINE v == [t EXCEPT !.stack = Append(@, i)]
    <2>1. Stands(t.values, i, x) /\ i \in Nat
        BY <1>2, <1>5 DEF Keeps, Stands
    <2>2. /\ IsState(v) /\ v.done = t.done /\ v.values = t.values
          /\ v.stack = Append(t.stack, i) /\ v.locals = t.locals
        BY <1>5, StackFields, Zenon DEF Simulates
    <2> HIDE DEF v, i
    <2>3. Agreement(t.values, t.locals, Append(t.stack, i), Append(short, x), new)
        BY <2>1, <1>5, AgreementPush DEF Simulates
    <2>4. stack \in Seq(I32)
        BY DEF Simulates, Agreement
    <2>5. Append(short, x) = stack
        BY <2>4, <1>2
    <2>6. Agreement(t.values, t.locals, Append(t.stack, i), stack, new)
        BY <2>3, <2>5, Zenon
    <2>7. Off(t.done)
        BY <1>5 DEF Simulates
    <2>8. Simulates(v, stack, new)
        BY <2>2, <2>6, <2>7 DEF Simulates
    <2> QED BY <2>8 DEF v
<1> QED BY <1>4, <1>5, <1>6

\* eqz: the analysis knows nothing of its result.
LEMMA TestSimulates ==
    ASSUME NEW s, NEW stack, NEW locals, Simulates(s, stack, locals), Len(stack) > 0,
           NEW op, op[1] = "eqz", NEW x \in I32
    PROVE  Simulates(SsaStep(s, op), Append(SubSeq(stack, 1, Len(stack) - 1), x), locals)
<1> DEFINE t == PopUse(s)
           short == SubSeq(stack, 1, Len(stack) - 1)
           none == {}
<1>1. SsaStep(s, op) = Define(t, none)
    BY DEF Simulates, SsaStep, Binary, Off
<1>2. Simulates(t, short, locals)
    BY PopSimulates
<1>3. none \in SUBSET Int /\ \A c \in none : Modulo(c) = x
    OBVIOUS
<1> HIDE DEF t, short, none
<1>4. Simulates(Define(t, none), Append(short, x), locals)
    BY <1>2, <1>3, DefineSimulates
<1> QED BY <1>1, <1>4 DEF short

\* A binary operation: two pops and a push.
LEMMA ArithmeticSimulates ==
    ASSUME NEW s, NEW stack, NEW locals, Simulates(s, stack, locals), Len(stack) > 1,
           NEW op, op[1] \in Arithmetic
    PROVE  Simulates(SsaStep(s, op),
                     Append(SubSeq(stack, 1, Len(stack) - 2),
                            Compute(op[1], stack[Len(stack) - 1], stack[Len(stack)])),
                     locals)
<1> DEFINE n == Len(stack)
           t == PopUse(s)
           u == PopUse(t)
           X == stack[n - 1]
           Y == stack[n]
           x == Compute(op[1], X, Y)
           C == UNION {Fold(op[1], p, q) : p \in ConstantAt(s, 2), q \in ConstantAt(s, 1)}
           once == SubSeq(stack, 1, n - 1)
           twice == SubSeq(stack, 1, n - 2)
<1>1. SsaStep(s, op) = Define(u, C)
    BY DEF Simulates, SsaStep, Binary, Off, Arithmetic
<1>2. /\ n \in Nat /\ stack \in Seq(I32) /\ X \in I32 /\ Y \in I32
      /\ Len(once) = n - 1 /\ SubSeq(once, 1, Len(once) - 1) = twice
    <2>1. n \in Nat /\ stack \in Seq(I32)
        BY DEF Simulates, Agreement
    <2>2. n - 1 \in 1..n /\ n \in 1..n
        BY <2>1
    <2>3. X \in I32 /\ Y \in I32
        BY <2>1, <2>2
    <2>4. Len(once) = n - 1 /\ SubSeq(once, 1, Len(once) - 1) = twice
        BY <2>1
    <2> QED BY <2>1, <2>3, <2>4
<1>3. Simulates(t, once, locals)
    BY <1>2, PopSimulates
<1>4. Simulates(u, twice, locals)
    <2> HIDE DEF t, once, twice
    <2>1. Len(once) > 0
        BY <1>2
    <2> QED BY <1>2, <1>3, <2>1, PopSimulates, Zenon
<1>5. /\ Stands(s.values, s.stack[n - 1], X) /\ Stands(s.values, s.stack[n], Y)
      /\ Len(s.stack) = n
    <2>1. n - 1 \in 1..n /\ n \in 1..n
        BY <1>2
    <2> QED BY <2>1, Zenon DEF Simulates, Agreement
<1>6. ConstantAt(s, 2) = s.values[s.stack[n - 1]].constant /\ ConstantAt(s, 1) = s.values[s.stack[n]].constant
    <2>1. ~(2 > Len(s.stack)) /\ ~(1 > Len(s.stack)) /\ Len(s.stack) - 2 + 1 = n - 1 /\ Len(s.stack) - 1 + 1 = n
        BY <1>2, <1>5
    <2> QED BY <2>1 DEF ConstantAt
<1>7. /\ \A p \in ConstantAt(s, 2) : p \in Int /\ Modulo(p) = X
      /\ \A q \in ConstantAt(s, 1) : q \in Int /\ Modulo(q) = Y
    <2>1. s.values \in Seq(Value)
        BY DEF Simulates, Agreement
    <2>2. ASSUME NEW i \in 1..Len(s.values)
          PROVE  s.values[i].constant \in SUBSET Int
        <3>1. s.values[i] \in Value
            BY <2>1, <2>2
        <3> QED BY <3>1 DEF Value
    <2> QED BY <1>5, <1>6, <2>2 DEF Stands
<1>8. /\ x \in I32
      /\ \A p, q \in Int : Modulo(p) = X /\ Modulo(q) = Y =>
             \A c \in Fold(op[1], p, q) : c \in Int /\ Modulo(c) = x
    <2> HIDE DEF X, Y
    <2> QED BY <1>2, FoldComputes
<1> HIDE DEF x
<1>9. \A c \in C : c \in Int /\ Modulo(c) = x
    <2> HIDE DEF X, Y
    <2> QED BY <1>7, <1>8
<1>10. C \in SUBSET Int
    BY <1>9
<1> HIDE DEF u, C, twice
<1>11. Simulates(Define(u, C), Append(twice, x), locals)
    BY <1>4, <1>8, <1>9, <1>10, DefineSimulates
<1> QED BY <1>1, <1>11 DEF twice, x

\* The analysis follows the machine, in which the locals in L are assigned.
Tracks(s, m, L) ==
    \/ Lost(m)
    \/ \E stack, locals, b : /\ m = Machine(stack, locals, b) /\ On(b)
                             /\ Simulates(s, stack, locals) /\ L \subseteq DOMAIN locals

Assigns(op) == IF op[1] \in {"local.set", "local.tee"} THEN {op[2]} ELSE {}

\* Each operator of analyze_values follows the machine's step on the same operator.
LEMMA StepTracks ==
    ASSUME NEW s, NEW m, NEW L, Tracks(s, m, L), NEW op \in StraightLine,
           op[1] = "local.get" => op[2] \in L
    PROVE  Tracks(SsaStep(s, op), Execute(m, op), L \cup Assigns(op))
<1>1. CASE Lost(m)
    <2>1. PICK stack, locals, b : m = Machine(stack, locals, b) /\ b = FALSE
        BY <1>1 DEF Lost
    <2>2. Lost(Execute(m, op))
        BY <2>1, ExecuteLoses
    <2> QED BY <2>2 DEF Tracks
<1>2. CASE ~Lost(m)
    <2>1. PICK stack, locals, b : /\ m = Machine(stack, locals, b) /\ On(b)
                                  /\ Simulates(s, stack, locals) /\ L \subseteq DOMAIN locals
        BY <1>2 DEF Tracks
    <2>2. ASSUME NEW st, NEW lo, Execute(m, op) = Machine(st, lo, b), Simulates(SsaStep(s, op), st, lo),
                 L \cup Assigns(op) \subseteq DOMAIN lo
          PROVE  Tracks(SsaStep(s, op), Execute(m, op), L \cup Assigns(op))
        BY <2>1, <2>2 DEF Tracks
    <2>a. ASSUME op[1] \notin {"local.set", "local.tee"}
          PROVE  L \cup Assigns(op) \subseteq DOMAIN locals
        BY <2>1, <2>a DEF Assigns
    <2>b. op[1] = "local.get" => op[2] \in DOMAIN locals
        BY <2>1
    <2>3. Len(stack) \in Nat /\ stack \in Seq(I32)
        BY <2>1 DEF Simulates, Agreement
    <2> DEFINE n == Len(stack)
               Blocked == n < Needs(op)
               Assigned == [l \in DOMAIN locals \cup {op[2]} |->
                                IF l = op[2] THEN stack[n] ELSE locals[l]]
    <2>4. CASE Blocked
        <3>1. Lost(Execute(m, op))
            BY <2>1, <2>4, ExecuteLoses
        <3> QED BY <3>1 DEF Tracks
    <2>5. CASE ~Blocked
        <3>1. \/ op[1] = "const" /\ op[2] \in Int
              \/ op[1] \in {"local.get", "local.set", "local.tee", "eqz", "drop"}
              \/ op[1] \in Arithmetic
            BY DEF StraightLine, Arithmetic
        <3>3. Execute(m, op) = Executed(stack, locals, b, op)
            BY <2>1, <2>5, <2>b, ExecuteCases
        <3>4. CASE op[1] = "const"
            <4> DEFINE C == {op[2]}
                       x == Modulo(op[2])
            <4>1. op[2] \in Int
                BY <3>1, <3>4 DEF Arithmetic
            <4>2. x \in I32 /\ C \in SUBSET Int /\ \A c \in C : Modulo(c) = x
                BY <4>1, ModuloIsI32
            <4>3. SsaStep(s, op) = Define(s, C)
                BY <2>1, <3>4 DEF Simulates, SsaStep, Binary, Off
            <4>4. Execute(m, op) = Machine(Append(stack, x), locals, b)
                BY <3>3, <3>4 DEF Executed
            <4> HIDE DEF C, x
            <4>5. Simulates(Define(s, C), Append(stack, x), locals)
                BY <2>1, <4>2, DefineSimulates
            <4> QED BY <2>2, <2>a, <3>4, <4>3, <4>4, <4>5
        <3>5. CASE op[1] = "local.get"
            <4>1. Execute(m, op) = Machine(Append(stack, locals[op[2]]), locals, b)
                BY <3>3, <3>5 DEF Executed
            <4>2. Simulates(SsaStep(s, op), Append(stack, locals[op[2]]), locals)
                BY <2>1, <2>b, <3>5, GetSimulates
            <4> QED BY <2>2, <2>a, <3>5, <4>1, <4>2
        <3>6. CASE op[1] \in {"local.set", "local.tee"}
            <4>1. n > 0
                BY <2>3, <2>5, <3>6 DEF Needs
            <4>1a. L \cup Assigns(op) \subseteq DOMAIN Assigned
                BY <2>1, <3>6 DEF Assigns
            <4> HIDE DEF Assigned
            <4>2. CASE op[1] = "local.set"
                <5>1. Execute(m, op) = Machine(SubSeq(stack, 1, n - 1), Assigned, b)
                    BY <3>3, <4>2 DEF Executed, Assigned
                <5>2. Simulates(SsaStep(s, op), SubSeq(stack, 1, n - 1), Assigned)
                    BY <2>1, <4>1, <4>2, AssignSimulates DEF Assigned
                <5> QED BY <2>2, <4>1a, <5>1, <5>2, Zenon
            <4>3. CASE op[1] = "local.tee"
                <5>1. Execute(m, op) = Machine(stack, Assigned, b)
                    BY <3>3, <4>3 DEF Executed, Assigned
                <5>2. Simulates(SsaStep(s, op), stack, Assigned)
                    BY <2>1, <4>1, <4>3, AssignSimulates DEF Assigned
                <5> QED BY <2>2, <4>1a, <5>1, <5>2
            <4> QED BY <3>6, <4>2, <4>3
        <3>7. CASE op[1] = "drop"
            <4>1. n > 0
                BY <2>3, <2>5, <3>7 DEF Needs
            <4>2. Execute(m, op) = Machine(SubSeq(stack, 1, n - 1), locals, b)
                BY <3>3, <3>7 DEF Executed
            <4>3. SsaStep(s, op) = PopUse(s)
                BY <2>1, <3>7 DEF Simulates, SsaStep, Binary, Off
            <4>4. Simulates(PopUse(s), SubSeq(stack, 1, n - 1), locals)
                BY <2>1, <4>1, PopSimulates
            <4>5. L \cup Assigns(op) \subseteq DOMAIN locals
                BY <2>a, <3>7
            <4> QED BY <2>2, <4>2, <4>3, <4>4, <4>5, Zenon
        <3>8. CASE op[1] = "eqz"
            <4> DEFINE x == Truth(stack[n] = 0)
            <4>1. n > 0
                BY <2>3, <2>5, <3>8 DEF Needs
            <4>2. Execute(m, op) = Machine(Append(SubSeq(stack, 1, n - 1), x), locals, b)
                BY <3>3, <3>8 DEF Executed
            <4>3. x \in I32
                BY TruthIsI32, Zenon
            <4> HIDE DEF x
            <4>4. Simulates(SsaStep(s, op), Append(SubSeq(stack, 1, n - 1), x), locals)
                BY <2>1, <3>8, <4>1, <4>3, TestSimulates
            <4>5. L \cup Assigns(op) \subseteq DOMAIN locals
                BY <2>a, <3>8
            <4> QED BY <2>2, <4>2, <4>4, <4>5, Zenon
        <3>9. CASE op[1] \in Arithmetic
            <4> DEFINE st == Append(SubSeq(stack, 1, n - 2), Compute(op[1], stack[n - 1], stack[n]))
            <4>1. n > 1
                BY <2>3, <2>5, <3>9 DEF Needs, Arithmetic
            <4>2. Execute(m, op) = Machine(st, locals, b)
                BY <3>3, <3>9 DEF Arithmetic, Executed
            <4>3. Simulates(SsaStep(s, op), st, locals)
                BY <2>1, <3>9, <4>1, ArithmeticSimulates
            <4>4. op[1] \notin {"local.set", "local.tee"}
                BY <3>9 DEF Arithmetic
            <4>5. L \cup Assigns(op) \subseteq DOMAIN locals
                BY <2>a, <4>4
            <4> HIDE DEF st
            <4> QED BY <2>2, <4>2, <4>3, <4>5, Zenon
        <3> QED BY <3>1, <3>4, <3>5, <3>6, <3>7, <3>8, <3>9
    <2> QED BY <2>4, <2>5
<1> QED BY <1>1, <1>2

\* The recursion of analyze_values and of Run.
LEMMA AnalysisUnfolds ==
    ASSUME NEW body, Len(body) \in Nat, NEW params
    PROVE  \E f : /\ analyze_values(body, params) = f[Len(body)] /\ f[0] = SsaInit(params)
                  /\ \A n \in 0..(Len(body) - 1) : f[n + 1] = SsaStep(f[n], body[n + 1])
<1> DEFINE N == Len(body)
           base == SsaInit(params)
           Step(v, i) == SsaStep(v, body[i])
           Is(g, n) == g = [k \in 0..n |-> IF k = 0 THEN base ELSE Step(g[k - 1], k)]
           X == {n \in Nat : \E g : Is(g, n)}
<1>1. 0 \in X
    <2> DEFINE g == [i \in 0..0 |-> base]
    <2>1. \A i \in 0..0 : i = 0 /\ g[i] = base
        OBVIOUS
    <2> HIDE DEF Step, base
    <2>2. Is(g, 0)
        BY <2>1
    <2> HIDE DEF g, Is
    <2> QED BY <2>2
<1>2. ASSUME NEW n \in Nat, n \in X
      PROVE  n + 1 \in X
    <2>1. PICK g : Is(g, n)
        BY <1>2
    <2> DEFINE h == [i \in 0..(n + 1) |-> IF i = n + 1 THEN Step(g[n], n + 1) ELSE g[i]]
    <2>2. ASSUME NEW i \in 0..(n + 1)
          PROVE  h[i] = IF i = 0 THEN base ELSE Step(h[i - 1], i)
        <3> HIDE DEF Step, base
        <3>1. CASE i = n + 1
            BY <3>1
        <3>2. CASE i \in 0..n
            BY <3>2, <2>1
        <3> QED BY <3>1, <3>2
    <2> HIDE DEF Step, base
    <2>3. Is(h, n + 1)
        BY <2>2
    <2> HIDE DEF h, Is
    <2> QED BY <2>3
<1>3. \E g : Is(g, N)
    <2>1. N \in X
        <3> HIDE DEF X
        <3> QED BY <1>1, <1>2, SetInduction
    <2> QED BY <2>1
<1> DEFINE upTo == CHOOSE g : Is(g, N)
<1>4. Is(upTo, N)
    BY <1>3
<1>5. analyze_values(body, params) = upTo[N]
    BY DEF analyze_values
<1> HIDE DEF upTo
<1>6. upTo[0] = base /\ \A n \in 0..(N - 1) : upTo[n + 1] = Step(upTo[n], n + 1)
    <2> HIDE DEF Step, base
    <2> QED BY <1>4
<1> QED BY <1>5, <1>6

\* The machine runs a body operator by operator.
LEMMA RunUnfolds ==
    ASSUME NEW body, Len(body) \in Nat, NEW arguments
    PROVE  \E f : /\ Run(body, arguments) = f[Len(body)] /\ f[0] = Started(arguments)
                  /\ \A n \in 0..(Len(body) - 1) : f[n + 1] = Execute(f[n], body[n + 1])
<1> DEFINE N == Len(body)
           base == Started(arguments)
           Step(v, i) == Execute(v, body[i])
           Is(g, n) == g = [k \in 0..n |-> IF k = 0 THEN base ELSE Step(g[k - 1], k)]
           X == {n \in Nat : \E g : Is(g, n)}
<1>1. 0 \in X
    <2> DEFINE g == [i \in 0..0 |-> base]
    <2>1. \A i \in 0..0 : i = 0 /\ g[i] = base
        OBVIOUS
    <2> HIDE DEF Step, base
    <2>2. Is(g, 0)
        BY <2>1
    <2> HIDE DEF g, Is
    <2> QED BY <2>2
<1>2. ASSUME NEW n \in Nat, n \in X
      PROVE  n + 1 \in X
    <2>1. PICK g : Is(g, n)
        BY <1>2
    <2> DEFINE h == [i \in 0..(n + 1) |-> IF i = n + 1 THEN Step(g[n], n + 1) ELSE g[i]]
    <2>2. ASSUME NEW i \in 0..(n + 1)
          PROVE  h[i] = IF i = 0 THEN base ELSE Step(h[i - 1], i)
        <3> HIDE DEF Step, base
        <3>1. CASE i = n + 1
            BY <3>1
        <3>2. CASE i \in 0..n
            BY <3>2, <2>1
        <3> QED BY <3>1, <3>2
    <2> HIDE DEF Step, base
    <2>3. Is(h, n + 1)
        BY <2>2
    <2> HIDE DEF h, Is
    <2> QED BY <2>3
<1>3. \E g : Is(g, N)
    <2>1. N \in X
        <3> HIDE DEF X
        <3> QED BY <1>1, <1>2, SetInduction
    <2> QED BY <2>1
<1> DEFINE upTo == CHOOSE g : Is(g, N)
<1>4. Is(upTo, N)
    BY <1>3
<1>5. Run(body, arguments) = upTo[N]
    BY DEF Run
<1> HIDE DEF upTo
<1>6. upTo[0] = base /\ \A n \in 0..(N - 1) : upTo[n + 1] = Step(upTo[n], n + 1)
    <2> HIDE DEF Step, base
    <2> QED BY <1>4
<1> QED BY <1>5, <1>6

\* The parameters are values nothing is known about.
LEMMA StartTracks ==
    ASSUME NEW params \in Nat, NEW arguments \in [0..(params - 1) -> I32]
    PROVE  Tracks(SsaInit(params), Started(arguments), 0..(params - 1))
<1> DEFINE none == {}
           values == [i \in 1..params |-> [constant |-> none, uses |-> 0]]
           variables == [l \in 0..(params - 1) |-> l + 1]
           empty == <<>>
<1>1. PICK d, b : Off(d) /\ On(b) /\ d = FALSE /\ b = TRUE
    BY Zenon DEF Off, On
<1>2. SsaInit(params) = State(values, variables, empty, 0, d)
    BY <1>1, Zenon DEF SsaInit, State
<1>3. Started(arguments) = Machine(empty, arguments, b)
    BY <1>1 DEF Started, Machine
<1>4. values \in Seq(Value) /\ Len(values) = params
    <2>1. [constant |-> none, uses |-> 0] \in Value
        BY DEF Value
    <2> DEFINE v == [constant |-> none, uses |-> 0]
    <2> HIDE DEF v
    <2>2. values = [i \in 1..params |-> v]
        BY DEF v
    <2>3. v \in Value
        BY <2>1 DEF v
    <2>4. values \in [1..params -> Value] /\ DOMAIN values = 1..params
        BY <2>2, <2>3, Zenon
    <2> HIDE DEF values
    <2> QED BY <2>4
<1>5. ASSUME NEW l \in 0..(params - 1)
      PROVE  Stands(values, variables[l], arguments[l])
    <2>1. variables[l] = l + 1 /\ l + 1 \in 1..params /\ arguments[l] \in I32
        OBVIOUS
    <2>2. values[l + 1].constant = none
        BY <2>1
    <2> QED BY <1>4, <2>1, <2>2 DEF Stands
<1>6. empty \in Seq(Nat) /\ empty \in Seq(I32) /\ Len(empty) = 0
    OBVIOUS
<1>7. DOMAIN variables = 0..(params - 1) /\ DOMAIN arguments = 0..(params - 1)
    OBVIOUS
<1> HIDE DEF values, variables, empty, none
<1>8. Agreement(values, variables, empty, empty, arguments)
    BY <1>4, <1>5, <1>6, <1>7 DEF Agreement
<1> DEFINE s == SsaInit(params)
<1>9. s.values = values /\ s.locals = variables /\ s.stack = empty /\ s.done = d /\ IsState(s)
    <2>1. s = State(values, variables, empty, 0, d)
        BY <1>2
    <2>2. IsState(s)
        BY <2>1 DEF IsState
    <2> QED BY <2>1, <2>2 DEF State
<1> HIDE DEF s
<1>10. Simulates(s, empty, arguments)
    BY <1>1, <1>8, <1>9 DEF Simulates
<1>11. 0..(params - 1) \subseteq DOMAIN arguments
    OBVIOUS
<1> QED BY <1>1, <1>3, <1>10, <1>11, Zenon DEF Tracks, s

\* The constants of a body without control flow, for every argument.
LEMMA AnalysisIsRight ==
    ASSUME NEW body \in Seq(StraightLine), NEW params \in Nat,
           NEW arguments \in [0..(params - 1) -> I32],
           ReadsAssigned(body, params), Run(body, arguments).defined
    PROVE  LET m == Run(body, arguments)
               s == analyze_values(body, params)
           IN  /\ Len(s.stack) = Len(m.stack)
               /\ \A k \in DOMAIN m.stack : \A c \in s.values[s.stack[k]].constant :
                     Modulo(c) = m.stack[k]
<1> DEFINE N == Len(body)
           m == Run(body, arguments)
           s == analyze_values(body, params)
<1>1. N \in Nat
    OBVIOUS
<1>2. PICK f : /\ s = f[N] /\ f[0] = SsaInit(params)
               /\ \A n \in 0..(N - 1) : f[n + 1] = SsaStep(f[n], body[n + 1])
    BY <1>1, AnalysisUnfolds, Zenon
<1>3. PICK g : /\ m = g[N] /\ g[0] = Started(arguments)
               /\ \A n \in 0..(N - 1) : g[n + 1] = Execute(g[n], body[n + 1])
    BY <1>1, RunUnfolds
<1> DEFINE L(n) == AssignedLocals(body, params, n)
           Y == {n \in Nat : n <= N => Tracks(f[n], g[n], L(n))}
<1>4. 0 \in Y
    <2>1. L(0) = 0..(params - 1)
        BY DEF AssignedLocals
    <2> QED BY <1>2, <1>3, <2>1, StartTracks
<1>5. ASSUME NEW n \in Nat, n \in Y
      PROVE  n + 1 \in Y
    <2> SUFFICES ASSUME n + 1 <= N PROVE Tracks(f[n + 1], g[n + 1], L(n + 1))
        OBVIOUS
    <2>1. n \in 0..(N - 1) /\ n <= N /\ n + 1 \in 1..N
        BY <1>1
    <2>2. Tracks(f[n], g[n], L(n))
        BY <1>5, <2>1
    <2>3. body[n + 1] \in StraightLine
        BY <2>1
    <2>4. f[n + 1] = SsaStep(f[n], body[n + 1]) /\ g[n + 1] = Execute(g[n], body[n + 1])
        BY <1>2, <1>3, <2>1
    <2>5. body[n + 1][1] = "local.get" => body[n + 1][2] \in L(n)
        BY <1>1, <2>1 DEF ReadsAssigned
    <2>6. L(n + 1) = L(n) \cup Assigns(body[n + 1])
        <3>1. \A j : j \in 1..(n + 1) <=> j \in 1..n \/ j = n + 1
            OBVIOUS
        <3> QED BY <3>1, Zenon DEF AssignedLocals, Assigns
    <2> HIDE DEF L
    <2> QED BY <2>2, <2>3, <2>4, <2>5, <2>6, StepTracks
<1>6. N \in Y
    <2> HIDE DEF Y
    <2> QED BY <1>1, <1>4, <1>5, SetInduction
<1>7. Tracks(s, m, L(N)) /\ m.defined
    BY <1>1, <1>2, <1>3, <1>6
<1> HIDE DEF m, s
<1>8. ~Lost(m)
    <2> SUFFICES ASSUME Lost(m) PROVE FALSE
        OBVIOUS
    <2>1. PICK stack, locals, b : m = Machine(stack, locals, b) /\ b = FALSE
        BY DEF Lost
    <2>2. m.defined = b
        BY <2>1 DEF Machine
    <2> QED BY <1>7, <2>1, <2>2
<1>9. PICK stack, locals, b : m = Machine(stack, locals, b) /\ On(b) /\ Simulates(s, stack, locals)
    BY <1>7, <1>8 DEF Tracks
<1> HIDE DEF L
<1>10. m.stack = stack
    BY <1>9 DEF Machine
<1>11. Agreement(s.values, s.locals, s.stack, stack, locals)
    BY <1>9 DEF Simulates
<1>12. Len(s.stack) = Len(stack) /\ DOMAIN stack = 1..Len(stack)
    BY <1>11 DEF Agreement
<1>13. ASSUME NEW k \in 1..Len(stack)
       PROVE  \A c \in s.values[s.stack[k]].constant : Modulo(c) = stack[k]
    <2>1. Stands(s.values, s.stack[k], stack[k])
        BY <1>11 DEF Agreement
    <2> QED BY <2>1 DEF Stands
<1> QED BY <1>10, <1>12, <1>13 DEF m, s

(***************************************************************************)
(* Plans.                                                                  *)
(***************************************************************************)
StepsOver(code, taken) ==
    \A k \in 0..Len(code) : taken[k] <=> k > 0 /\ pair_is_roundtrip(code, k) /\ ~taken[k - 1]

SitesAt(code, S) ==
    LET at == Ascending(S)
    IN  [n \in DOMAIN at |-> Site(code[at[n]].ea, code[at[n]].words + code[at[n] + 1].words)]

\* junk_sites takes a pair when it did not take the one before.
LEMMA PairsAreTaken ==
    ASSUME NEW code, Len(code) \in Nat
    PROVE  \E taken : /\ StepsOver(code, taken)
                      /\ junk_sites(code) = SitesAt(code, {k \in DOMAIN code : taken[k]})
<1> DEFINE N == Len(code)
           Pair(k) == pair_is_roundtrip(code, k)
           Is(g, n) == g = [k \in 0..n |-> k > 0 /\ Pair(k) /\ ~g[k - 1]]
           X == {n \in Nat : \E g : Is(g, n)}
<1>1. 0 \in X
    <2> DEFINE g == [k \in 0..0 |-> FALSE]
    <2>1. ASSUME NEW k \in 0..0
          PROVE  g[k] = (k > 0 /\ Pair(k) /\ ~g[k - 1])
        <3>1. ~(k > 0) /\ g[k] = FALSE
            OBVIOUS
        <3> HIDE DEF g, Pair
        <3> QED BY <3>1, Zenon
    <2>2. Is(g, 0)
        BY <2>1, Zenon
    <2> HIDE DEF g, Is
    <2> QED BY <2>2
<1>2. ASSUME NEW n \in Nat, n \in X
      PROVE  n + 1 \in X
    <2>1. PICK g : Is(g, n)
        BY <1>2
    <2> DEFINE h == [k \in 0..(n + 1) |-> IF k = n + 1 THEN Pair(k) /\ ~g[n] ELSE g[k]]
    <2>2. ASSUME NEW k \in 0..(n + 1)
          PROVE  h[k] = (k > 0 /\ Pair(k) /\ ~h[k - 1])
        <3> HIDE DEF Pair
        <3>1. CASE k = n + 1
            BY <3>1
        <3>2. CASE k \in 0..n
            BY <3>2, <2>1
        <3> QED BY <3>1, <3>2
    <2>3. Is(h, n + 1)
        BY <2>2
    <2> HIDE DEF h, Is
    <2> QED BY <2>3
<1>3. \E g : Is(g, N)
    <2>1. N \in X
        <3> HIDE DEF X
        <3> QED BY <1>1, <1>2, SetInduction
    <2> QED BY <2>1
<1> DEFINE taken == CHOOSE g : Is(g, N)
<1>4. Is(taken, N)
    BY <1>3, Zenon
<1>5. junk_sites(code) = SitesAt(code, {k \in DOMAIN code : taken[k]})
    BY DEF junk_sites, SitesAt
<1> HIDE DEF taken
<1>6. ASSUME NEW k \in 0..N
      PROVE  taken[k] <=> k > 0 /\ Pair(k) /\ ~taken[k - 1]
    BY <1>4, Zenon
<1>7. StepsOver(code, taken)
    BY <1>6, Zenon DEF StepsOver
<1> QED BY <1>5, <1>7, Zenon

\* The places of the sites that junk_sites returns: pairs, of two that follow each other
\* at most one, and at least one of each pair and the one before.
LEMMA JunkSites ==
    ASSUME NEW code, Len(code) \in Nat, DOMAIN code = 1..Len(code)
    PROVE  \E S \in SUBSET DOMAIN code :
              /\ Len(junk_sites(code)) \in Nat /\ junk_sites(code) \in Seq({Site(code[k].ea, code[k].words + code[k + 1].words) : k \in S})
              /\ \A k \in S : \E n \in DOMAIN junk_sites(code) : junk_sites(code)[n].ea = code[k].ea
              /\ \A k \in S : pair_is_roundtrip(code, k) /\ k + 1 \notin S
              /\ \A k \in DOMAIN code : pair_is_roundtrip(code, k) => k \in S \/ k - 1 \in S
<1> DEFINE N == Len(code)
           Pair(k) == pair_is_roundtrip(code, k)
           At(k) == Site(code[k].ea, code[k].words + code[k + 1].words)
           sites == junk_sites(code)
<1>1. PICK taken : /\ StepsOver(code, taken)
                   /\ sites = SitesAt(code, {k \in DOMAIN code : taken[k]})
    BY PairsAreTaken, Zenon
<1> DEFINE S == {k \in DOMAIN code : taken[k]}
           at == Ascending(S)
<1>2. S \subseteq 1..N /\ S \in SUBSET DOMAIN code
    OBVIOUS
<1>2a. ASSUME NEW k \in 0..N
       PROVE  taken[k] <=> k > 0 /\ Pair(k) /\ ~taken[k - 1]
    BY <1>1, Zenon DEF StepsOver
<1>3. ASSUME NEW k \in S
      PROVE  Pair(k) /\ k + 1 \notin S
    <2>1. k \in 0..N /\ taken[k]
        BY <1>2
    <2>2. Pair(k)
        BY <1>2a, <2>1, Zenon
    <2>3. ASSUME k + 1 \in S
          PROVE  FALSE
        <3>1. k + 1 \in 0..N /\ taken[k + 1] /\ (k + 1) - 1 = k
            BY <1>2, <2>3
        <3>2. ~taken[(k + 1) - 1]
            BY <1>2a, <3>1, Zenon
        <3> QED BY <2>1, <3>1, <3>2
    <2> QED BY <2>2, <2>3
<1>4. ASSUME NEW k \in DOMAIN code, Pair(k), k \notin S
      PROVE  k - 1 \in S
    <2>1. k \in 0..N /\ k > 0 /\ ~taken[k]
        BY <1>4
    <2>2. taken[k - 1]
        BY <1>2a, <1>4, <2>1, Zenon
    <2>3. k - 1 \in 0..N
        BY <2>1
    <2>4. k - 1 > 0
        BY <1>2a, <2>2, <2>3, Zenon
    <2> QED BY <2>1, <2>2, <2>4
<1>5. sites = [n \in DOMAIN at |-> At(at[n])]
    BY <1>1, Zenon DEF SitesAt
<1> HIDE DEF S, Pair, sites
<1>6. /\ Len(at) \in Nat /\ DOMAIN at = 1..Len(at)
      /\ \A n \in DOMAIN at : at[n] \in S
      /\ \A k \in S : \E n \in DOMAIN at : at[n] = k
    BY <1>2, AscendingIsSorted, Zenon
<1> HIDE DEF at
<1>7. \A k \in S : \E n \in DOMAIN sites : sites[n].ea = code[k].ea
    <2>1. \A k \in S : At(k).ea = code[k].ea
        BY DEF Site
    <2>2. \A k \in S : \E n \in DOMAIN sites : sites[n] = At(k)
        <3> HIDE DEF At
        <3> QED BY <1>5, <1>6
    <2> QED BY <2>1, <2>2
<1>8. Len(sites) \in Nat /\ sites \in Seq({At(k) : k \in S})
    <2> HIDE DEF At
    <2> QED BY <1>5, <1>6
<1> QED BY <1>2, <1>3, <1>4, <1>7, <1>8, Zenon DEF Pair, sites

(***************************************************************************)
(* Discovery.                                                              *)
(***************************************************************************)
\* The recursions of discover_all and of the walk to the root.
LEMMA DiscoveredUnfolds ==
    ASSUME NEW host, NEW candidates, Len(candidates) \in Nat
    PROVE  \E f : /\ Discovered(host, candidates) = f[Len(candidates)] /\ f[0] = <<>>
                  /\ \A n \in 0..(Len(candidates) - 1) : f[n + 1] = Push(host, f[n], candidates[n + 1])
<1> DEFINE N == Len(candidates)
           base == <<>>
           Step(v, i) == Push(host, v, candidates[i])
           Is(g, n) == g = [k \in 0..n |-> IF k = 0 THEN base ELSE Step(g[k - 1], k)]
           X == {n \in Nat : \E g : Is(g, n)}
<1>1. 0 \in X
    <2> DEFINE g == [i \in 0..0 |-> base]
    <2>1. \A i \in 0..0 : i = 0 /\ g[i] = base
        OBVIOUS
    <2> HIDE DEF Step, base
    <2>2. Is(g, 0)
        BY <2>1
    <2> HIDE DEF g, Is
    <2> QED BY <2>2
<1>2. ASSUME NEW n \in Nat, n \in X
      PROVE  n + 1 \in X
    <2>1. PICK g : Is(g, n)
        BY <1>2
    <2> DEFINE h == [i \in 0..(n + 1) |-> IF i = n + 1 THEN Step(g[n], n + 1) ELSE g[i]]
    <2>2. ASSUME NEW i \in 0..(n + 1)
          PROVE  h[i] = IF i = 0 THEN base ELSE Step(h[i - 1], i)
        <3> HIDE DEF Step, base
        <3>1. CASE i = n + 1
            BY <3>1
        <3>2. CASE i \in 0..n
            BY <3>2, <2>1
        <3> QED BY <3>1, <3>2
    <2> HIDE DEF Step, base
    <2>3. Is(h, n + 1)
        BY <2>2
    <2> HIDE DEF h, Is
    <2> QED BY <2>3
<1>3. \E g : Is(g, N)
    <2>1. N \in X
        <3> HIDE DEF X
        <3> QED BY <1>1, <1>2, SetInduction
    <2> QED BY <2>1
<1> DEFINE upTo == CHOOSE g : Is(g, N)
<1>4. Is(upTo, N)
    BY <1>3, Zenon
<1>5. Discovered(host, candidates) = upTo[N]
    BY DEF Discovered
<1> HIDE DEF upTo
<1>6. upTo[0] = base /\ \A n \in 0..(N - 1) : upTo[n + 1] = Step(upTo[n], n + 1)
    <2> HIDE DEF Step, base
    <2> QED BY <1>4
<1> QED BY <1>5, <1>6

OneUp(host, s) ==
    IF LastOf(s) \in DOMAIN host.parent THEN Append(s, host.parent[LastOf(s)]) ELSE s

\* The walk to the parent directories of an environment variable, level by level.
LEMMA UpwardsUnfolds ==
    ASSUME NEW host, NEW d, NEW levels \in Nat
    PROVE  \E f : /\ Upwards(host, d, levels) = f[levels] /\ f[0] = <<d>>
                  /\ \A n \in 0..(levels - 1) : f[n + 1] = OneUp(host, f[n])
<1> DEFINE N == levels
           base == <<d>>
           Step(v, i) == OneUp(host, v)
           Is(g, n) == g = [k \in 0..n |-> IF k = 0 THEN base ELSE Step(g[k - 1], k)]
           X == {n \in Nat : \E g : Is(g, n)}
<1>1. 0 \in X
    <2> DEFINE g == [i \in 0..0 |-> base]
    <2>1. \A i \in 0..0 : i = 0 /\ g[i] = base
        OBVIOUS
    <2> HIDE DEF Step, base
    <2>2. Is(g, 0)
        BY <2>1
    <2> HIDE DEF g, Is
    <2> QED BY <2>2
<1>2. ASSUME NEW n \in Nat, n \in X
      PROVE  n + 1 \in X
    <2>1. PICK g : Is(g, n)
        BY <1>2
    <2> DEFINE h == [i \in 0..(n + 1) |-> IF i = n + 1 THEN Step(g[n], n + 1) ELSE g[i]]
    <2>2. ASSUME NEW i \in 0..(n + 1)
          PROVE  h[i] = IF i = 0 THEN base ELSE Step(h[i - 1], i)
        <3> HIDE DEF Step, base
        <3>1. CASE i = n + 1
            BY <3>1
        <3>2. CASE i \in 0..n
            BY <3>2, <2>1
        <3> QED BY <3>1, <3>2
    <2> HIDE DEF Step, base
    <2>3. Is(h, n + 1)
        BY <2>2
    <2> HIDE DEF h, Is
    <2> QED BY <2>3
<1>3. \E g : Is(g, N)
    <2>1. N \in X
        <3> HIDE DEF X
        <3> QED BY <1>1, <1>2, SetInduction
    <2> QED BY <2>1
<1> DEFINE upTo == CHOOSE g : Is(g, N)
<1>4. Is(upTo, N)
    BY <1>3
<1>5. Upwards(host, d, levels) = upTo[N]
    BY DEF Upwards, OneUp
<1> HIDE DEF upTo
<1>6. upTo[0] = base /\ \A n \in 0..(N - 1) : upTo[n + 1] = Step(upTo[n], n + 1)
    <2> HIDE DEF Step, base
    <2> QED BY <1>4
<1> QED BY <1>5, <1>6

LookIn(host, dirs, found, n) ==
    [d \in dirs |->
        LET below == Subdirectories(host, d)
            hits == {k \in DOMAIN below : found[below[k]] # <<>>}
        IN  IF is_valid_ida_dir(host, d) THEN <<d>>
            ELSE IF n = 0 THEN <<>>
            ELSE IF hits = {} THEN <<>> ELSE found[below[Min(hits)]]]

Directories(host) == {"root"} \cup UNION {Range(host.children[d]) : d \in DOMAIN host.children}

\* The recursion of the drive scan.
LEMMA ScanUnfolds ==
    ASSUME NEW host, NEW levels \in Nat
    PROVE  \E f : /\ scan_dir(host, levels) = f[levels]
                  /\ \A d \in Directories(host) : f[0][d] # <<>> => is_valid_ida_dir(host, d) /\ f[0][d] = <<d>>
                  /\ \A d \in Directories(host) : is_valid_ida_dir(host, d) => f[0][d] = <<d>>
                  /\ \A n \in 1..levels : f[n] = LookIn(host, Directories(host), f[n - 1], n)
<1> DEFINE dirs == Directories(host)
           Step(v, i) == LookIn(host, dirs, v, i)
           Is(g, n) == g = [k \in 0..n |-> Step(g[k - 1], k)]
           X == {n \in Nat : \E g : Is(g, n)}
           base == [d \in dirs |-> IF is_valid_ida_dir(host, d) THEN <<d>> ELSE <<>>]
<1>0. \A v : Step(v, 0) = base
    BY DEF LookIn
<1>1. 0 \in X
    <2> DEFINE g == [i \in 0..0 |-> base]
    <2>1. \A i \in 0..0 : i = 0 /\ g[i] = base
        OBVIOUS
    <2> HIDE DEF Step, base
    <2>2. Is(g, 0)
        BY <2>1, <1>0
    <2> HIDE DEF g, Is
    <2> QED BY <2>2
<1>2. ASSUME NEW n \in Nat, n \in X
      PROVE  n + 1 \in X
    <2>1. PICK g : Is(g, n)
        BY <1>2
    <2> DEFINE h == [i \in 0..(n + 1) |-> IF i = n + 1 THEN Step(g[n], n + 1) ELSE g[i]]
    <2>2. ASSUME NEW i \in 0..(n + 1)
          PROVE  h[i] = Step(h[i - 1], i)
        <3> HIDE DEF Step, base
        <3>1. CASE i = n + 1
            BY <3>1
        <3>2. CASE i = 0
            <4>1. g[0] = Step(g[0 - 1], 0)
                BY <2>1
            <4> QED BY <3>2, <4>1, <1>0
        <3>3. CASE i \in 1..n
            <4>1. h[i] = g[i] /\ h[i - 1] = g[i - 1]
                BY <3>3
            <4> QED BY <3>3, <4>1, <2>1
        <3> QED BY <3>1, <3>2, <3>3
    <2> HIDE DEF Step, base
    <2>3. Is(h, n + 1)
        BY <2>2
    <2> HIDE DEF h, Is
    <2> QED BY <2>3
<1>3. \E g : Is(g, levels)
    <2>1. levels \in X
        <3> HIDE DEF X
        <3> QED BY <1>1, <1>2, SetInduction
    <2> QED BY <2>1
<1> DEFINE found == CHOOSE g : Is(g, levels)
<1>4. Is(found, levels)
    BY <1>3, Zenon
<1>5. scan_dir(host, levels) = found[levels]
    BY DEF scan_dir, LookIn, Directories
<1> HIDE DEF found
<1>6. \A n \in 0..levels : found[n] = Step(found[n - 1], n)
    <2> HIDE DEF Step, base
    <2> QED BY <1>4
<1>7. found[0] = base
    <2> HIDE DEF Step, base
    <2> QED BY <1>6, <1>0
<1>8. \A d \in dirs : found[0][d] # <<>> => is_valid_ida_dir(host, d) /\ found[0][d] = <<d>>
    <2> HIDE DEF dirs, found
    <2> QED BY <1>7
<1>9. \A d \in dirs : is_valid_ida_dir(host, d) => found[0][d] = <<d>>
    <2> HIDE DEF dirs, found
    <2> QED BY <1>7
<1>10. \A n \in 1..levels : found[n] = LookIn(host, dirs, found[n - 1], n)
    BY <1>6
<1> HIDE DEF dirs
<1> QED BY <1>5, <1>8, <1>9, <1>10 DEF dirs

\* The scan stays among the directories it lists.
Listed(host, dirs) ==
    \A e \in DOMAIN host.children :
       /\ Len(host.children[e]) \in Nat
       /\ DOMAIN host.children[e] = 1..Len(host.children[e])
       /\ \A k \in DOMAIN host.children[e] : host.children[e][k] \in dirs

\* A directory in which the scan finds nothing is not valid, nor is anything found below it.
LEMMA LookInFinds ==
    ASSUME NEW host, NEW dirs, NEW found, NEW n \in Nat \ {0}, NEW d \in dirs, NEW new,
           new = LookIn(host, dirs, found, n),
           Listed(host, dirs)
    PROVE  /\ new[d] = <<>> => /\ ~is_valid_ida_dir(host, d)
                               /\ d \in DOMAIN host.children =>
                                     \A k \in DOMAIN host.children[d] : found[host.children[d][k]] = <<>>
           /\ new[d] # <<>> => \/ is_valid_ida_dir(host, d) /\ new[d] = <<d>>
                               \/ \E e \in dirs : found[e] # <<>> /\ new[d] = found[e]
<1> DEFINE below == Subdirectories(host, d)
           hits == {k \in DOMAIN below : found[below[k]] # <<>>}
<1>1. new[d] = IF is_valid_ida_dir(host, d) THEN <<d>>
               ELSE IF hits = {} THEN <<>> ELSE found[below[Min(hits)]]
    BY DEF LookIn
<1>2. Len(below) \in Nat /\ DOMAIN below = 1..Len(below) /\ \A k \in DOMAIN below : below[k] \in dirs
    BY DEF Subdirectories, Listed
<1>3. hits # {} => Min(hits) \in hits
    <2>1. hits \subseteq 1..Len(below)
        BY <1>2
    <2> HIDE DEF hits
    <2> QED BY <2>1, <1>2, FirstAndLast, Zenon
<1>4. d \in DOMAIN host.children => below = host.children[d]
    BY DEF Subdirectories
<1>5. <<d>> # <<>>
    OBVIOUS
<1> HIDE DEF below
<1>6. CASE is_valid_ida_dir(host, d)
    BY <1>1, <1>5, <1>6
<1>7. CASE ~is_valid_ida_dir(host, d) /\ hits = {}
    BY <1>1, <1>4, <1>7
<1>8. CASE ~is_valid_ida_dir(host, d) /\ hits # {}
    <2>1. below[Min(hits)] \in dirs /\ found[below[Min(hits)]] # <<>>
        BY <1>2, <1>3, <1>8
    <2>2. new[d] = found[below[Min(hits)]]
        BY <1>1, <1>8
    <2> QED BY <1>8, <2>1, <2>2, Zenon
<1> QED BY <1>6, <1>7, <1>8

\* Every subdirectory of a host that has its shape is one that the scan of the drives knows.
LEMMA ChildrenAreListed ==
    ASSUME NEW host, HostType(host)
    PROVE  Listed(host, Directories(host))
<1>1. ASSUME NEW e \in DOMAIN host.children
      PROVE  /\ Len(host.children[e]) \in Nat
             /\ DOMAIN host.children[e] = 1..Len(host.children[e])
             /\ \A k \in DOMAIN host.children[e] : host.children[e][k] \in Directories(host)
    <2>1. host.children[e] \in Seq(Range(host.children[e]))
        BY DEF HostType
    <2>2. Range(host.children[e]) \subseteq Directories(host)
        BY DEF Directories
    <2> QED BY <2>1, <2>2 DEF Range
<1> QED BY <1>1 DEF Listed

\* The scan finds nothing in the directories D.
Bare(host, found, D) == D \subseteq Directories(host) /\ \A d \in D : found[d] = <<>>

\* One level down.
LEMMA ScanLevel ==
    ASSUME NEW host, HostType(host), NEW n \in Nat \ {0}, NEW found, NEW new,
           new = LookIn(host, Directories(host), found, n),
           NEW D, Bare(host, new, D)
    PROVE  /\ D \cap DOMAIN host.version = {}
           /\ Bare(host, found, Inside(host, D))
<1> DEFINE dirs == Directories(host)
<1>1. Listed(host, dirs)
    BY ChildrenAreListed
<1> HIDE DEF dirs
<1>2. ASSUME NEW d \in D
      PROVE  /\ ~is_valid_ida_dir(host, d)
             /\ d \in DOMAIN host.children =>
                   \A k \in DOMAIN host.children[d] : found[host.children[d][k]] = <<>>
    <2>1. d \in dirs /\ new[d] = <<>>
        BY DEF dirs, Bare
    <2>2. new = LookIn(host, dirs, found, n)
        BY DEF dirs
    <2> QED BY <1>1, <2>1, <2>2, LookInFinds
<1>3. \A d \in Inside(host, D) : \E e \in D \cap DOMAIN host.children : \E k \in DOMAIN host.children[e] :
         d = host.children[e][k]
    BY DEF Inside, Range
<1> QED BY <1>1, <1>2, <1>3 DEF dirs, Listed, Bare, is_valid_ida_dir

\* scan_dir to depth 4: it returns nothing only when no directory in reach holds an
\* install, and otherwise one directory that does.
LEMMA ScanFinds ==
    ASSUME NEW host, HostType(host), NEW s, s = scan_dir(host, 4)["root"]
    PROVE  /\ s = <<>> => Scannable(host) \cap DOMAIN host.version = {}
           /\ s # <<>> => \E d : is_valid_ida_dir(host, d) /\ s = <<d>>
<1> DEFINE dirs == Directories(host)
<1>1. PICK f : /\ scan_dir(host, 4) = f[4]
               /\ \A d \in dirs : f[0][d] # <<>> => is_valid_ida_dir(host, d) /\ f[0][d] = <<d>>
               /\ \A d \in dirs : is_valid_ida_dir(host, d) => f[0][d] = <<d>>
               /\ \A n \in 1..4 : f[n] = LookIn(host, dirs, f[n - 1], n)
    <2>1. 4 \in Nat
        OBVIOUS
    <2> QED BY <2>1, ScanUnfolds, Zenon
<1>a. f[4] = LookIn(host, dirs, f[3], 4)
    <2>1. f[4] = LookIn(host, dirs, f[4 - 1], 4)
        BY <1>1
    <2> QED BY <2>1
<1>b. f[3] = LookIn(host, dirs, f[2], 3)
    <2>1. f[3] = LookIn(host, dirs, f[3 - 1], 3)
        BY <1>1
    <2> QED BY <2>1
<1>c. f[2] = LookIn(host, dirs, f[1], 2)
    <2>1. f[2] = LookIn(host, dirs, f[2 - 1], 2)
        BY <1>1
    <2> QED BY <2>1
<1>d. f[1] = LookIn(host, dirs, f[0], 1)
    <2>1. f[1] = LookIn(host, dirs, f[1 - 1], 1)
        BY <1>1
    <2> QED BY <2>1
<1>3. "root" \in dirs
    BY DEF Directories
<1>4. Listed(host, dirs)
    BY ChildrenAreListed
<1> HIDE DEF dirs
<1> DEFINE Good(g) == \A d \in dirs : g[d] # <<>> => \E e : is_valid_ida_dir(host, e) /\ g[d] = <<e>>
<1>5. ASSUME NEW n \in Nat \ {0}, NEW g, NEW h, h = LookIn(host, dirs, g, n), Good(g)
      PROVE  Good(h)
    <2>1. ASSUME NEW d \in dirs, h[d] # <<>>
          PROVE  \E e : is_valid_ida_dir(host, e) /\ h[d] = <<e>>
        <3>1. \/ is_valid_ida_dir(host, d) /\ h[d] = <<d>>
              \/ \E e \in dirs : g[e] # <<>> /\ h[d] = g[e]
            BY <1>4, <1>5, <2>1, LookInFinds
        <3> QED BY <3>1, <1>5
    <2> QED BY <2>1
<1>6. Good(f[0])
    BY <1>1
<1>7. Good(f[4])
    <2> HIDE DEF Good
    <2>1. Good(f[1])
        BY <1>d, <1>5, <1>6
    <2>2. Good(f[2])
        BY <1>c, <1>5, <2>1
    <2>3. Good(f[3])
        BY <1>b, <1>5, <2>2
    <2> QED BY <1>a, <1>5, <2>3
<1>8. s = f[4]["root"]
    BY <1>1
<1>9. s # <<>> => \E d : is_valid_ida_dir(host, d) /\ s = <<d>>
    BY <1>3, <1>7, <1>8
<1>10. ASSUME s = <<>>
       PROVE  Scannable(host) \cap DOMAIN host.version = {}
    <2> DEFINE valid == DOMAIN host.version
               zero == {"root"}
               one == Inside(host, zero)
               two == Inside(host, one)
               three == Inside(host, two)
               four == Inside(host, three)
    <2> HIDE DEF one, two, three, four, zero, valid
    <2>1. Bare(host, f[4], zero)
        BY <1>3, <1>8, <1>10, Zenon DEF zero, dirs, Bare
    <2>2. zero \cap valid = {} /\ Bare(host, f[3], one)
        BY <1>a, <2>1, ScanLevel DEF dirs, one, valid
    <2>3. one \cap valid = {} /\ Bare(host, f[2], two)
        BY <1>b, <2>2, ScanLevel DEF dirs, two, valid
    <2>4. two \cap valid = {} /\ Bare(host, f[1], three)
        BY <1>c, <2>3, ScanLevel DEF dirs, three, valid
    <2>5. three \cap valid = {} /\ Bare(host, f[0], four)
        BY <1>d, <2>4, ScanLevel DEF dirs, four, valid
    <2>6. four \cap valid = {}
        <3>1. \A d : <<d>> # <<>>
            OBVIOUS
        <3>2. \A d \in four : d \in dirs /\ f[0][d] = <<>>
            BY <2>5 DEF Bare, dirs
        <3> QED BY <1>1, <3>1, <3>2, Zenon DEF valid, is_valid_ida_dir
    <2>7. Scannable(host) = zero \cup one \cup two \cup three \cup four
        BY DEF Scannable, zero, one, two, three, four
    <2>8. Scannable(host) \cap valid = {}
        BY <2>2, <2>3, <2>4, <2>5, <2>6, <2>7
    <2> QED BY <2>8 DEF valid
<1> QED BY <1>9, <1>10

IsList(s) == s \in Seq(Range(s))

\* What is at the positions of a list with an element more, and of two lists in a row.
Longer(s, e, t) ==
    /\ IsList(t) /\ Len(s) \in Nat /\ DOMAIN s = 1..Len(s)
    /\ Len(t) = Len(s) + 1 /\ DOMAIN t = 1..(Len(s) + 1)
    /\ t[Len(s) + 1] = e /\ \A k \in DOMAIN s : k \in DOMAIN t /\ t[k] = s[k]

\* Append adds one element at the end.
LEMMA LongerList ==
    ASSUME NEW s, IsList(s), NEW e
    PROVE  Longer(s, e, Append(s, e))
<1> DEFINE t == Append(s, e)
<1> DEFINE S == Range(s) \cup {e}
<1>1. s \in Seq(S)
    BY DEF IsList
<1> HIDE DEF S
<1>2. e \in S
    BY DEF S
<1>3. /\ t \in Seq(S) /\ Len(s) \in Nat /\ DOMAIN s = 1..Len(s)
      /\ Len(t) = Len(s) + 1 /\ DOMAIN t = 1..(Len(s) + 1)
      /\ t[Len(s) + 1] = e /\ \A k \in DOMAIN s : k \in DOMAIN t /\ t[k] = s[k]
    BY <1>1, <1>2
<1>4. t \in Seq(Range(t))
    <2>1. \A k \in 1..Len(t) : t[k] \in Range(t)
        BY <1>3 DEF Range
    <2> QED BY <1>3, <2>1
<1> QED BY <1>3, <1>4 DEF IsList, Longer

\* Two candidate lists in a row have the elements of both.
LEMMA JoinedList ==
    ASSUME NEW s, IsList(s), NEW t, IsList(t), NEW u, u = s \o t
    PROVE  IsList(u) /\ Range(u) = Range(s) \cup Range(t)
<1> DEFINE S == Range(s) \cup Range(t)
<1>1. s \in Seq(S) /\ t \in Seq(S)
    BY DEF IsList
<1> HIDE DEF S
<1>2. /\ u \in Seq(S) /\ Len(s) \in Nat /\ Len(t) \in Nat /\ Len(u) = Len(s) + Len(t)
      /\ DOMAIN u = 1..Len(u) /\ DOMAIN s = 1..Len(s) /\ DOMAIN t = 1..Len(t)
    BY <1>1
<1>3. \A k \in 1..Len(u) : u[k] = IF k <= Len(s) THEN s[k] ELSE t[k - Len(s)]
    BY <1>1, <1>2
<1>4. \A k \in DOMAIN s : k \in DOMAIN u /\ u[k] = s[k]
    BY <1>2, <1>3
<1>5. ASSUME NEW k \in DOMAIN t
      PROVE  k + Len(s) \in DOMAIN u /\ u[k + Len(s)] = t[k]
    <2>1. k + Len(s) \in 1..Len(u) /\ ~(k + Len(s) <= Len(s)) /\ (k + Len(s)) - Len(s) = k
        BY <1>2
    <2> QED BY <1>2, <1>3, <2>1
<1>6. \A k \in DOMAIN u : (\E i \in DOMAIN s : u[k] = s[i]) \/ (\E i \in DOMAIN t : u[k] = t[i])
    <2>1. ASSUME NEW k \in DOMAIN u, ~(k <= Len(s))
          PROVE  k - Len(s) \in DOMAIN t /\ u[k] = t[k - Len(s)]
        BY <1>2, <1>3, <2>1
    <2>2. ASSUME NEW k \in DOMAIN u, k <= Len(s)
          PROVE  k \in DOMAIN s /\ u[k] = s[k]
        BY <1>2, <1>3, <2>2
    <2> QED BY <2>1, <2>2
<1>7. Range(u) = Range(s) \cup Range(t)
    <2>1. \A x \in Range(s) : x \in Range(u)
        BY <1>4 DEF Range
    <2>2. ASSUME NEW x \in Range(t)
          PROVE  x \in Range(u)
        <3>1. PICK k \in DOMAIN t : x = t[k]
            BY DEF Range
        <3>2. k + Len(s) \in DOMAIN u /\ u[k + Len(s)] = x
            BY <1>5, <3>1
        <3> DEFINE l == k + Len(s)
        <3> HIDE DEF l
        <3>3. l \in DOMAIN u /\ u[l] = x
            BY <3>2 DEF l
        <3> QED BY <3>3 DEF Range
    <2>3. \A x \in Range(u) : x \in Range(s) \cup Range(t)
        BY <1>6 DEF Range
    <2> QED BY <2>1, <2>2, <2>3
<1> QED BY <1>2, <1>7 DEF IsList, S

\* A list of one element.
LEMMA ListOfOne ==
    ASSUME NEW x
    PROVE  IsList(<<x>>) /\ Range(<<x>>) = {x} /\ Len(<<x>>) = 1
BY DEF IsList, Range

\* The empty list.
LEMMA EmptyList == IsList(<<>>) /\ Range(<<>>) = {} /\ Len(<<>>) = 0
BY DEF IsList, Range

\* A list made from another.
LEMMA MappedList ==
    ASSUME NEW s, IsList(s), NEW t, DOMAIN t = DOMAIN s, t = [k \in DOMAIN s |-> t[k]]
    PROVE  IsList(t)
<1>1. Len(s) \in Nat /\ DOMAIN s = 1..Len(s)
    BY DEF IsList
<1>2. t \in [1..Len(s) -> Range(t)]
    BY <1>1 DEF Range
<1> QED BY <1>1, <1>2 DEF IsList

\* One step towards the root keeps what was there.
LEMMA OneUpKeeps ==
    ASSUME NEW host, NEW s, IsList(s), Len(s) > 0, NEW t, t = OneUp(host, s)
    PROVE  /\ IsList(t) /\ Len(t) > 0 /\ t[1] = s[1]
           /\ Range(s) \subseteq Range(t)
           /\ LastOf(s) \in DOMAIN host.parent =>
                 LastOf(t) = host.parent[LastOf(s)] /\ LastOf(t) \in Range(t)
           /\ LastOf(s) \notin DOMAIN host.parent => t = s
<1>1. CASE LastOf(s) \in DOMAIN host.parent
    <2> DEFINE e == host.parent[LastOf(s)]
    <2>1. t = Append(s, e)
        BY <1>1 DEF OneUp
    <2> HIDE DEF e
    <2>a. Longer(s, e, t)
        BY <2>1, LongerList
    <2>2. /\ IsList(t) /\ Len(s) \in Nat /\ DOMAIN s = 1..Len(s)
          /\ Len(t) = Len(s) + 1 /\ DOMAIN t = 1..(Len(s) + 1)
          /\ t[Len(s) + 1] = e /\ \A k \in DOMAIN s : k \in DOMAIN t /\ t[k] = s[k]
        BY <2>a DEF Longer
    <2>3. Range(s) \subseteq Range(t)
        BY <2>2 DEF Range
    <2>4. LastOf(t) = e
        BY <2>2 DEF LastOf
    <2>5. e \in Range(t)
        <3>1. Len(s) + 1 \in DOMAIN t
            BY <2>2
        <3> QED BY <2>2, <3>1 DEF Range
    <2>6. Len(t) > 0 /\ t[1] = s[1]
        BY <2>2
    <2> QED BY <1>1, <2>2, <2>3, <2>4, <2>5, <2>6 DEF e
<1>2. CASE LastOf(s) \notin DOMAIN host.parent
    <2>1. t = s
        BY <1>2 DEF OneUp
    <2> QED BY <1>2, <2>1
<1> QED BY <1>1, <1>2

\* The directories that the environment variable names are candidates.
LEMMA EnvNames ==
    ASSUME NEW host, NEW d, NEW t, t = Upwards(host, d, 2)
    PROVE  IsList(t) /\ Above(host, d) \subseteq Range(t)
<1>1. PICK f : /\ t = f[2] /\ f[0] = <<d>>
               /\ \A n \in 0..(2 - 1) : f[n + 1] = OneUp(host, f[n])
    <2>1. 2 \in Nat
        OBVIOUS
    <2> QED BY <2>1, UpwardsUnfolds
<1>2. f[1] = OneUp(host, f[0]) /\ f[2] = OneUp(host, f[1])
    <2>1. f[0 + 1] = OneUp(host, f[0]) /\ f[1 + 1] = OneUp(host, f[1])
        BY <1>1
    <2> QED BY <2>1
<1>3. /\ IsList(f[0]) /\ Len(f[0]) > 0 /\ Range(f[0]) = {d} /\ LastOf(f[0]) = d
    BY <1>1, ListOfOne DEF LastOf
<1>4. /\ IsList(f[1]) /\ Len(f[1]) > 0 /\ d \in Range(f[1])
      /\ d \in DOMAIN host.parent =>
            LastOf(f[1]) = host.parent[d] /\ host.parent[d] \in Range(f[1])
      /\ d \notin DOMAIN host.parent => LastOf(f[1]) = d
    BY <1>2, <1>3, OneUpKeeps
<1>5. /\ IsList(f[2]) /\ Range(f[1]) \subseteq Range(f[2])
      /\ LastOf(f[1]) \in DOMAIN host.parent => host.parent[LastOf(f[1])] \in Range(f[2])
    BY <1>2, <1>4, OneUpKeeps
<1>6. ASSUME NEW x \in Above(host, d)
      PROVE  x \in Range(t)
    <2>1. CASE x = d
        BY <2>1, <1>1, <1>4, <1>5
    <2>2. CASE d \in DOMAIN host.parent /\ x = host.parent[d]
        BY <2>2, <1>1, <1>4, <1>5
    <2>3. CASE /\ d \in DOMAIN host.parent /\ host.parent[d] \in DOMAIN host.parent
               /\ x = host.parent[host.parent[d]]
        BY <2>3, <1>1, <1>4, <1>5
    <2> QED BY <2>1, <2>2, <2>3 DEF Above, Parents
<1> QED BY <1>1, <1>5, <1>6

\* The walk from the directory that the configuration names starts there.
LEMMA ConfigNames ==
    ASSUME NEW host, NEW d, NEW t, t = Upwards(host, d, 3)
    PROVE  IsList(t) /\ Len(t) > 0 /\ t[1] = d
<1>1. PICK f : /\ t = f[3] /\ f[0] = <<d>>
               /\ \A n \in 0..(3 - 1) : f[n + 1] = OneUp(host, f[n])
    <2>1. 3 \in Nat
        OBVIOUS
    <2> QED BY <2>1, UpwardsUnfolds
<1>2. f[1] = OneUp(host, f[0]) /\ f[2] = OneUp(host, f[1]) /\ f[3] = OneUp(host, f[2])
    <2>1. f[0 + 1] = OneUp(host, f[0]) /\ f[1 + 1] = OneUp(host, f[1]) /\ f[2 + 1] = OneUp(host, f[2])
        BY <1>1
    <2> QED BY <2>1
<1>3. IsList(f[0]) /\ Len(f[0]) > 0 /\ f[0][1] = d
    BY <1>1, ListOfOne
<1>4. IsList(f[1]) /\ Len(f[1]) > 0 /\ f[1][1] = d
    BY <1>2, <1>3, OneUpKeeps
<1>5. IsList(f[2]) /\ Len(f[2]) > 0 /\ f[2][1] = d
    BY <1>2, <1>4, OneUpKeeps
<1>6. IsList(f[3]) /\ Len(f[3]) > 0 /\ f[3][1] = d
    BY <1>2, <1>5, OneUpKeeps
<1> QED BY <1>1, <1>6

\* What is listed of an install.
Install(host, e) ==
    /\ e.dir \in DOMAIN host.version /\ e.version \in Nat
    /\ host.version[e.dir] # Unknown => e.version = host.version[e.dir]

\* A list of the installs in the directories D that leaves none out.
Finds(host, found, D) ==
    /\ IsList(found)
    /\ \A e \in Range(found) : Install(host, e) /\ e.dir \in D
    /\ \A d \in D \cap DOMAIN host.version : \E e \in Range(found) : e.dir = d

\* Push, the step of discover_all for one candidate: the install there is found or known
\* already, and nothing found before is lost.
LEMMA PushFinds ==
    ASSUME NEW host, HostType(host), NEW D, NEW found, Finds(host, found, D), NEW c, c.hint \in Nat
    PROVE  Finds(host, Push(host, found, c), D \cup {c.dir})
<1> DEFINE e == [dir |-> c.dir, source |-> c.source, version |-> detect_version(host, c.dir, c.hint)]
           new == Push(host, found, c)
<1>0. IsList(found) /\ \A x \in Range(found) : Install(host, x) /\ x.dir \in D
    BY DEF Finds
<1>1. CASE \E k \in DOMAIN found : found[k].dir = c.dir
    <2>1. new = found
        BY <1>1 DEF Push
    <2>2. \E x \in Range(found) : x.dir = c.dir
        BY <1>1 DEF Range
    <2> QED BY <2>1, <2>2 DEF Finds
<1>2. CASE c.dir \notin DOMAIN host.version
    <2>1. new = found
        BY <1>2 DEF Push, is_valid_ida_dir
    <2> QED BY <1>2, <2>1 DEF Finds
<1>3. CASE ~(\E k \in DOMAIN found : found[k].dir = c.dir) /\ c.dir \in DOMAIN host.version
    <2>1. new = Append(found, e)
        BY <1>3 DEF Push, is_valid_ida_dir
    <2>2. e.dir = c.dir /\ Install(host, e)
        <3>1. host.version[c.dir] \in Nat
            BY <1>3 DEF HostType
        <3>2. e.version = IF host.version[c.dir] # Unknown THEN host.version[c.dir] ELSE c.hint
            BY DEF detect_version
        <3>3. e.dir = c.dir
            OBVIOUS
        <3> HIDE DEF e
        <3> QED BY <1>3, <3>1, <3>2, <3>3 DEF Install
    <2> HIDE DEF e, new
    <2>3. Longer(found, e, new)
        BY <1>0, <2>1, LongerList
    <2>4. IsList(new) /\ Range(new) = Range(found) \cup {e}
        <3>1. /\ IsList(new) /\ DOMAIN found = 1..Len(found) /\ Len(found) \in Nat
              /\ DOMAIN new = 1..(Len(found) + 1) /\ new[Len(found) + 1] = e
              /\ \A k \in DOMAIN found : k \in DOMAIN new /\ new[k] = found[k]
            BY <2>3 DEF Longer
        <3>2. \A k \in DOMAIN new : k \in DOMAIN found \/ k = Len(found) + 1
            BY <3>1
        <3>3. \A x \in Range(new) : x \in Range(found) \cup {e}
            BY <3>1, <3>2 DEF Range
        <3>4. \A x \in Range(found) : x \in Range(new)
            BY <3>1 DEF Range
        <3>5. e \in Range(new)
            <4>1. Len(found) + 1 \in DOMAIN new
                BY <3>1
            <4> QED BY <3>1, <4>1 DEF Range
        <3> QED BY <3>1, <3>3, <3>4, <3>5
    <2>5. \A x \in Range(new) : Install(host, x) /\ x.dir \in D \cup {c.dir}
        BY <1>0, <2>2, <2>4
    <2>6. ASSUME NEW d \in (D \cup {c.dir}) \cap DOMAIN host.version
          PROVE  \E x \in Range(new) : x.dir = d
        <3>1. CASE d = c.dir
            BY <2>2, <2>4, <3>1
        <3>2. CASE d # c.dir
            <4>1. \E x \in Range(found) : x.dir = d
                BY <3>2 DEF Finds
            <4> QED BY <2>4, <4>1
        <3> QED BY <3>1, <3>2
    <2> QED BY <2>4, <2>5, <2>6 DEF Finds, new
<1> QED BY <1>1, <1>2, <1>3

\* discover_all lists every valid directory that a candidate names.
LEMMA DiscoveredFinds ==
    ASSUME NEW host, HostType(host), NEW candidates, IsList(candidates),
           \A c \in Range(candidates) : c.hint \in Nat
    PROVE  Finds(host, Discovered(host, candidates), {c.dir : c \in Range(candidates)})
<1> DEFINE N == Len(candidates)
           Dirs(n) == {candidates[k].dir : k \in 1..n}
<1>1. N \in Nat /\ DOMAIN candidates = 1..N
    BY DEF IsList
<1>2. PICK f : /\ Discovered(host, candidates) = f[N] /\ f[0] = <<>>
               /\ \A n \in 0..(N - 1) : f[n + 1] = Push(host, f[n], candidates[n + 1])
    BY <1>1, DiscoveredUnfolds
<1> DEFINE X == {n \in Nat : n <= N => Finds(host, f[n], Dirs(n))}
<1>3. 0 \in X
    <2>1. Dirs(0) = {}
        OBVIOUS
    <2> HIDE DEF Dirs
    <2>2. Finds(host, f[0], Dirs(0))
        BY <1>2, <2>1, EmptyList DEF Finds
    <2> QED BY <2>2
<1>4. ASSUME NEW n \in Nat, n \in X
      PROVE  n + 1 \in X
    <2>1. CASE n + 1 <= N
        <3> DEFINE c == candidates[n + 1]
                   g == f[n]
        <3>1. Finds(host, g, Dirs(n))
            BY <1>1, <1>4, <2>1
        <3>2. n + 1 \in DOMAIN candidates
            BY <1>1, <2>1
        <3>3. c.hint \in Nat
            BY <3>2 DEF Range
        <3>4. f[n + 1] = Push(host, g, c)
            <4>1. n \in 0..(N - 1)
                BY <1>1, <2>1
            <4> QED BY <1>2, <4>1
        <3>5. Dirs(n + 1) = Dirs(n) \cup {c.dir}
            <4>1. \A k \in 1..(n + 1) : k \in 1..n \/ k = n + 1
                OBVIOUS
            <4>2. \A k \in 1..n : k \in 1..(n + 1)
                OBVIOUS
            <4>3. n + 1 \in 1..(n + 1)
                OBVIOUS
            <4> QED BY <4>1, <4>2, <4>3
        <3> HIDE DEF c, g, Dirs
        <3>6. Finds(host, Push(host, g, c), Dirs(n) \cup {c.dir})
            BY <3>1, <3>3, PushFinds
        <3>7. Finds(host, f[n + 1], Dirs(n + 1))
            BY <3>4, <3>5, <3>6, Zenon
        <3> QED BY <3>7
    <2>2. CASE ~(n + 1 <= N)
        BY <2>2
    <2> QED BY <2>1, <2>2
<1>5. N \in X
    <2> HIDE DEF X
    <2> QED BY <1>1, <1>3, <1>4, SetInduction
<1>6. Finds(host, f[N], Dirs(N))
    BY <1>1, <1>5
<1>7. Dirs(N) = {c.dir : c \in Range(candidates)}
    BY <1>1 DEF Range
<1> HIDE DEF Dirs
<1> QED BY <1>2, <1>6, <1>7

\* The sort by version keeps the installs.
LEMMA ByVersionKeeps ==
    ASSUME NEW found, IsList(found), \A e \in Range(found) : e.version \in Nat
    PROVE  IsList(ByVersion(found)) /\ Range(ByVersion(found)) = Range(found)
<1> DEFINE D == DOMAIN found
           score == [i \in D |-> found[i].version]
           tie == [i \in D |-> i]
           lower == [x \in D |-> {y \in D : score[y] > score[x] \/ (score[y] = score[x] /\ tie[y] < tie[x])}]
           s == Arranged(D, lower)
           t == ByVersion(found)
<1>0. Len(found) \in Nat /\ D = 1..Len(found)
    BY DEF IsList
<1>1. t = [k \in DOMAIN s |-> found[s[k]]]
    <2>1. lower = [x \in D |-> {y \in D : found[y].version > found[x].version
                                         \/ (found[y].version = found[x].version /\ y < x)}]
        OBVIOUS
    <2> HIDE DEF lower
    <2> QED BY <2>1 DEF ByVersion, Sorted
<1>2. /\ \A i \in D : score[i] \in Int /\ tie[i] \in Int
      /\ \A x, y \in D : tie[x] = tie[y] => x = y
    BY <1>0 DEF Range
<1>3. Orders(D, lower)
    <2> HIDE DEF score, tie, D
    <2> QED BY <1>2, ScoresOrder
<1>4. IsFiniteSet(D)
    BY <1>0, FS_Interval
<1>5. /\ s \in Seq(D) /\ Len(s) \in Nat /\ DOMAIN s = 1..Len(s)
      /\ \A k \in DOMAIN s : s[k] \in D
      /\ \A x \in D : \E k \in DOMAIN s : s[k] = x
    <2> HIDE DEF lower, D
    <2> QED BY <1>3, <1>4, ArrangedIsSorted
<1> HIDE DEF s, t, lower
<1>6. DOMAIN t = DOMAIN s /\ \A k \in DOMAIN s : t[k] = found[s[k]]
    BY <1>1
<1>7. IsList(t)
    <2>1. IsList(s)
        BY <1>5 DEF IsList, Range
    <2>2. t = [k \in DOMAIN s |-> t[k]]
        BY <1>1
    <2> QED BY <1>6, <2>1, <2>2, MappedList
<1>8. \A x \in Range(t) : x \in Range(found)
    BY <1>5, <1>6 DEF Range
<1>9. \A x \in Range(found) : x \in Range(t)
    BY <1>5, <1>6 DEF Range
<1> QED BY <1>7, <1>8, <1>9 DEF t

\* Some element has the greatest score.
LEMMA SomeIsBest ==
    ASSUME NEW K, IsFiniteSet(K), NEW some \in K, NEW score, \A x \in K : score[x] \in Int,
           NEW tie, \A x \in K : tie[x] \in Int, \A x, y \in K : tie[x] = tie[y] => x = y
    PROVE  \E k \in K : \A j \in K : score[j] <= score[k]
<1> DEFINE lower == [x \in K |-> {y \in K : score[y] > score[x] \/ (score[y] = score[x] /\ tie[y] < tie[x])}]
           s == Arranged(K, lower)
<1>1. Orders(K, lower)
    BY ScoresOrder
<1>2. \A x, y \in K : y \in lower[x] => score[x] <= score[y]
    OBVIOUS
<1> HIDE DEF lower
<1>3. /\ Len(s) \in Nat /\ DOMAIN s = 1..Len(s)
      /\ \A k \in DOMAIN s : s[k] \in K
      /\ \A x \in K : \E k \in DOMAIN s : s[k] = x
      /\ \A j, k \in DOMAIN s : j < k => s[j] \in lower[s[k]]
    BY <1>1, ArrangedIsSorted
<1> HIDE DEF s
<1>4. 1 \in DOMAIN s /\ s[1] \in K
    <2>1. PICK k \in DOMAIN s : s[k] = some
        BY <1>3
    <2>2. 1 \in DOMAIN s
        BY <1>3, <2>1
    <2> QED BY <1>3, <2>2
<1>5. ASSUME NEW j \in K
      PROVE  score[j] <= score[s[1]]
    <2>1. PICK k \in DOMAIN s : s[k] = j
        BY <1>3
    <2>2. CASE k = 1
        <3>1. score[j] \in Int
            OBVIOUS
        <3> QED BY <2>1, <2>2, <3>1
    <2>3. CASE k # 1
        <3>1. 1 < k
            BY <1>3, <2>3
        <3>2. s[1] \in lower[j]
            BY <1>3, <1>4, <2>1, <3>1
        <3> QED BY <1>2, <1>4, <3>2
    <2> QED BY <2>2, <2>3
<1> QED BY <1>4, <1>5

\* Candidates that name at least the directories D.
Names(candidates, D) ==
    /\ IsList(candidates)
    /\ \A c \in Range(candidates) : c.hint \in Nat
    /\ \A d \in D : \E c \in Range(candidates) : c.dir = d

\* Candidate lists in a row name what each of them names.
LEMMA JoinedNames ==
    ASSUME NEW s, NEW t, NEW D, NEW E, Names(s, D), Names(t, E)
    PROVE  Names(s \o t, D \cup E)
<1>1. IsList(s \o t) /\ Range(s \o t) = Range(s) \cup Range(t)
    BY JoinedList, Zenon DEF Names
<1> QED BY <1>1 DEF Names

\* The candidates made from a list of directories name those directories.
LEMMA FromNames ==
    ASSUME NEW dirs, IsList(dirs), NEW source
    PROVE  Names(From(dirs, source), Range(dirs))
<1> DEFINE t == From(dirs, source)
<1>1. DOMAIN t = DOMAIN dirs /\ t = [k \in DOMAIN dirs |-> t[k]]
    BY DEF From
<1>2. \A k \in DOMAIN dirs : t[k].dir = dirs[k] /\ t[k].hint = Unknown
    BY DEF From
<1> HIDE DEF t
<1>3. IsList(t)
    BY <1>1, MappedList
<1>4. \A c \in Range(t) : c.hint \in Nat
    BY <1>1, <1>2 DEF Range, Unknown
<1>5. ASSUME NEW d \in Range(dirs)
      PROVE  \E c \in Range(t) : c.dir = d
    <2>1. PICK k \in DOMAIN dirs : dirs[k] = d
        BY DEF Range
    <2>2. t[k] \in Range(t) /\ t[k].dir = d
        BY <1>1, <1>2, <2>1 DEF Range
    <2> QED BY <2>2
<1> QED BY <1>3, <1>4, <1>5 DEF Names, t

\* A source that holds at most one directory, as a list.
LEMMA OneOfList ==
    ASSUME NEW S, \A d, e \in S : d = e
    PROVE  IsList(OneOf(S)) /\ Range(OneOf(S)) = S
<1>1. CASE S = {}
    BY <1>1, EmptyList DEF OneOf
<1>2. CASE S # {}
    <2> DEFINE x == CHOOSE x \in S : TRUE
    <2>1. x \in S
        BY <1>2
    <2>2. S = {x}
        BY <2>1
    <2>3. OneOf(S) = <<x>>
        BY <1>2 DEF OneOf
    <2> HIDE DEF x
    <2> QED BY <2>2, <2>3, ListOfOne
<1> QED BY <1>1, <1>2

\* The environment variable names its directory and the two above it.
LEMMA EnvIsNamed ==
    ASSUME NEW host, HostType(host), NEW t, t = EnvCandidates(host)
    PROVE  IsList(t) /\ UNION {Above(host, d) : d \in host.env} \subseteq Range(t)
<1>1. CASE host.env = {}
    BY <1>1, EmptyList DEF EnvCandidates
<1>2. CASE host.env # {}
    <2> DEFINE x == CHOOSE d \in host.env : TRUE
    <2>1. x \in host.env /\ \A d \in host.env : d = x
        BY <1>2 DEF HostType
    <2>2. t = Upwards(host, x, 2)
        BY <1>2 DEF EnvCandidates
    <2> HIDE DEF x
    <2>3. IsList(t) /\ Above(host, x) \subseteq Range(t)
        BY <2>2, EnvNames
    <2> QED BY <2>1, <2>3
<1> QED BY <1>1, <1>2

\* ida_config_dirs keeps every configured directory that holds an install.
LEMMA ConfigIsNamed ==
    ASSUME NEW host, HostType(host), NEW t, t = ida_config_dirs(host)
    PROVE  IsList(t) /\ host.config \cap DOMAIN host.version \subseteq Range(t)
<1> DEFINE x == CHOOSE d \in host.config : TRUE
           up == Upwards(host, x, 3)
           valid == {k \in DOMAIN up : is_valid_ida_dir(host, up[k])}
           first == IF host.config = {} \/ valid = {} THEN <<>> ELSE <<up[Min(valid)]>>
           second == OneOf({d \in {host.profile} : is_valid_ida_dir(host, d)})
<1>1. t = first \o second
    BY DEF ida_config_dirs
<1>2. IsList(second)
    <2>1. \A d, e \in {d \in {host.profile} : is_valid_ida_dir(host, d)} : d = e
        OBVIOUS
    <2> QED BY <2>1, OneOfList
<1>3. IsList(up) /\ Len(up) > 0 /\ up[1] = x
    <2> HIDE DEF x
    <2> QED BY ConfigNames
<1> HIDE DEF second, up
<1>4. IsList(first) /\ host.config \cap DOMAIN host.version \subseteq Range(first)
    <2>1. CASE host.config = {}
        BY <2>1, EmptyList
    <2>2. CASE host.config # {}
        <3>1. x \in host.config /\ \A d \in host.config : d = x
            BY <2>2 DEF HostType
        <3> HIDE DEF x
        <3>2. Len(up) \in Nat /\ DOMAIN up = 1..Len(up)
            BY <1>3 DEF IsList
        <3>3. valid \subseteq 1..Len(up)
            BY <3>2
        <3>4. CASE x \in DOMAIN host.version
            <4>1. 1 \in valid
                BY <1>3, <3>2, <3>4 DEF is_valid_ida_dir
            <4>2. Min(valid) \in valid /\ Min(valid) <= 1
                <5> HIDE DEF valid
                <5> QED BY <3>2, <3>3, <4>1, FirstAndLast, Zenon
            <4>3. Min(valid) = 1
                BY <3>2, <4>2
            <4>4. first = <<x>>
                BY <1>3, <2>2, <4>1, <4>3
            <4> HIDE DEF first
            <4> QED BY <3>1, <4>4, ListOfOne
        <3>5. CASE x \notin DOMAIN host.version
            <4>1. host.config \cap DOMAIN host.version = {}
                BY <3>1, <3>5
            <4>2. IsList(first)
                BY EmptyList, ListOfOne
            <4> QED BY <4>1, <4>2
        <3> QED BY <3>4, <3>5, Zenon
    <2> QED BY <2>1, <2>2, Zenon
<1> HIDE DEF first
<1>5. IsList(t) /\ Range(t) = Range(first) \cup Range(second)
    BY <1>1, <1>2, <1>4, JoinedList, Zenon
<1> QED BY <1>4, <1>5

\* os_native_candidates names every directory the system registered.
LEMMA NativeIsNamed ==
    ASSUME NEW host, HostType(host)
    PROVE  Names(os_native_candidates(host), {host.native[k][1] : k \in DOMAIN host.native})
<1> DEFINE t == os_native_candidates(host)
           s == host.native
<1>0. IsList(s) /\ \A k \in DOMAIN s : s[k][2] \in Nat
    BY DEF HostType, IsList
<1>1. DOMAIN t = DOMAIN s /\ t = [k \in DOMAIN s |-> t[k]]
    BY DEF os_native_candidates
<1>2. \A k \in DOMAIN s : t[k].dir = s[k][1] /\ t[k].hint = s[k][2]
    BY DEF os_native_candidates
<1> HIDE DEF t, s
<1>3. IsList(t)
    BY <1>0, <1>1, MappedList
<1>4. \A c \in Range(t) : c.hint \in Nat
    BY <1>0, <1>1, <1>2 DEF Range
<1>5. ASSUME NEW k \in DOMAIN s
      PROVE  \E c \in Range(t) : c.dir = s[k][1]
    <2>1. t[k] \in Range(t) /\ t[k].dir = s[k][1]
        BY <1>1, <1>2 DEF Range
    <2> QED BY <2>1
<1>6. \A d \in {s[k][1] : k \in DOMAIN s} : \E c \in Range(t) : c.dir = d
    BY <1>5
<1> QED BY <1>3, <1>4, <1>6 DEF Names, t, s

\* reg_hint_candidates keeps every hinted directory that holds an install.
LEMMA HintsAreNamed ==
    ASSUME NEW host, HostType(host), NEW t, t = reg_hint_candidates(host)
    PROVE  IsList(t) /\ Range(host.hints) \cap DOMAIN host.version \subseteq Range(t)
<1> DEFINE hints == host.hints
           S == {k \in DOMAIN hints : is_valid_ida_dir(host, hints[k])}
           s == Ascending(S)
<1>1. t = [n \in DOMAIN s |-> hints[s[n]]]
    BY DEF reg_hint_candidates
<1>2. Len(hints) \in Nat /\ DOMAIN hints = 1..Len(hints)
    <2>1. hints \in Seq(Range(hints))
        BY DEF HostType
    <2> QED BY <2>1
<1>3. /\ s \in Seq(S) /\ DOMAIN s = 1..Len(s)
      /\ \A k \in DOMAIN s : s[k] \in S
      /\ \A x \in S : \E k \in DOMAIN s : s[k] = x
    <2>1. S \subseteq 1..Len(hints)
        BY <1>2
    <2> HIDE DEF S
    <2> QED BY <1>2, <2>1, AscendingIsSorted, Zenon
<1> HIDE DEF s
<1>4. DOMAIN t = DOMAIN s /\ \A k \in DOMAIN s : t[k] = hints[s[k]]
    BY <1>1
<1>5. IsList(t)
    <2>1. IsList(s)
        BY <1>3 DEF IsList, Range
    <2>2. t = [k \in DOMAIN s |-> t[k]]
        BY <1>1
    <2> QED BY <1>4, <2>1, <2>2, MappedList
<1>6. ASSUME NEW d \in Range(hints), d \in DOMAIN host.version
      PROVE  d \in Range(t)
    <2>1. PICK i \in DOMAIN hints : hints[i] = d
        BY DEF Range
    <2>2. i \in S
        BY <1>6, <2>1 DEF is_valid_ida_dir
    <2>3. PICK k \in DOMAIN s : s[k] = i
        BY <1>3, <2>2
    <2>4. t[k] = d /\ k \in DOMAIN t
        BY <1>4, <2>1, <2>3
    <2> QED BY <2>4 DEF Range
<1> QED BY <1>5, <1>6

\* A scan that finds nothing, cached or not, means that nothing is there.
LEMMA CachedScanFinds ==
    ASSUME NEW host, HostType(host), NEW s, s = cached_drive_scan(host)
    PROVE  /\ IsList(s)
           /\ s = <<>> => Scannable(host) \cap DOMAIN host.version = {}
           /\ s # <<>> => Range(s) \cap DOMAIN host.version # {}
<1>1. CASE CacheHits(host) # {}
    <2> DEFINE e == CHOOSE e \in CacheHits(host) : TRUE
    <2>1. e \in CacheHits(host)
        BY <1>1
    <2>2. e.dir \in DOMAIN host.version
        BY <2>1 DEF CacheHits, is_valid_ida_dir
    <2> DEFINE d == e.dir
    <2>3. s = <<d>>
        BY <1>1 DEF cached_drive_scan
    <2> HIDE DEF e, d
    <2>4. d \in DOMAIN host.version
        BY <2>2 DEF d
    <2>5. IsList(s) /\ Range(s) = {d} /\ s # <<>>
        BY <2>3, ListOfOne
    <2> QED BY <2>4, <2>5
<1>2. CASE CacheHits(host) = {}
    <2>1. s = scan_dir(host, 4)["root"]
        BY <1>2 DEF cached_drive_scan
    <2>2. /\ s = <<>> => Scannable(host) \cap DOMAIN host.version = {}
          /\ s # <<>> => \E d : is_valid_ida_dir(host, d) /\ s = <<d>>
        BY <2>1, ScanFinds
    <2>3. CASE s = <<>>
        BY <2>2, <2>3, EmptyList
    <2>4. CASE s # <<>>
        <3>1. PICK d : is_valid_ida_dir(host, d) /\ s = <<d>>
            BY <2>2, <2>4
        <3>2. IsList(s) /\ Range(s) = {d}
            BY <3>1, ListOfOne
        <3> QED BY <2>4, <3>1, <3>2 DEF is_valid_ida_dir
    <2> QED BY <2>3, <2>4
<1> QED BY <1>1, <1>2

\* Every valid directory that a source names is a candidate, and so is what the scan found.
LEMMA CandidatesName ==
    ASSUME NEW host, HostType(host)
    PROVE  Names(Candidates(host), (Named(host) \cap DOMAIN host.version) \cup Range(cached_drive_scan(host)))
<1> DEFINE valid == DOMAIN host.version
           a == From(EnvCandidates(host), "env")
           b == From(ida_config_dirs(host), "config")
           c == os_native_candidates(host)
           d == From(host.common, "common_paths")
           e == From(reg_hint_candidates(host), "reg_hint")
           f == From(cached_drive_scan(host), "drive_scan")
           A == Range(EnvCandidates(host))
           B == Range(ida_config_dirs(host))
           C == {host.native[k][1] : k \in DOMAIN host.native}
           D == Range(host.common)
           E == Range(reg_hint_candidates(host))
           F == Range(cached_drive_scan(host))
<1>1. Candidates(host) = a \o b \o c \o d \o e \o f
    BY DEF Candidates
<1>a. Names(a, A) /\ UNION {Above(host, x) : x \in host.env} \subseteq A
    BY EnvIsNamed, FromNames
<1>b. Names(b, B) /\ host.config \cap valid \subseteq B
    BY ConfigIsNamed, FromNames
<1>c. Names(c, C)
    BY NativeIsNamed
<1>d. Names(d, D)
    <2>1. IsList(host.common)
        BY DEF HostType, IsList
    <2> QED BY <2>1, FromNames
<1>e. Names(e, E) /\ Range(host.hints) \cap valid \subseteq E
    BY HintsAreNamed, FromNames
<1>f. Names(f, F)
    BY CachedScanFinds, FromNames
<1>2. Named(host) \cap valid \subseteq A \cup B \cup C \cup D \cup E
    <2> HIDE DEF A, B, E
    <2> QED BY <1>a, <1>b, <1>e DEF Named
<1> HIDE DEF a, b, c, d, e, f, A, B, C, D, E, F, valid
<1>3. Names(a \o b, A \cup B)
    BY <1>a, <1>b, JoinedNames
<1>4. Names(a \o b \o c, A \cup B \cup C)
    BY <1>3, <1>c, JoinedNames
<1>5. Names(a \o b \o c \o d, A \cup B \cup C \cup D)
    BY <1>4, <1>d, JoinedNames
<1>6. Names(a \o b \o c \o d \o e, A \cup B \cup C \cup D \cup E)
    BY <1>5, <1>e, JoinedNames
<1>7. Names(Candidates(host), A \cup B \cup C \cup D \cup E \cup F)
    BY <1>1, <1>6, <1>f, JoinedNames
<1>8. \A x \in (Named(host) \cap valid) \cup F : x \in A \cup B \cup C \cup D \cup E \cup F
    BY <1>2
<1>9. Names(Candidates(host), (Named(host) \cap valid) \cup F)
    BY <1>7, <1>8 DEF Names
<1> QED BY <1>9 DEF F, valid

\* discover_all finds installs that are there, every one that a source names unless an
\* explicit directory overrules them, and nothing only when nothing is installed in reach.
LEMMA DiscoverAllFinds ==
    ASSUME NEW host, HostType(host), NEW all, all = discover_all(host)
    PROVE  /\ IsList(all) /\ \A x \in Range(all) : Install(host, x)
           /\ \/ Overruled(host)
              \/ \A d \in Named(host) \cap DOMAIN host.version : \E x \in Range(all) : x.dir = d
           /\ all = <<>> => DOMAIN host.version \cap (host.explicit \cup Named(host) \cup Scannable(host)) = {}
<1> DEFINE valid == DOMAIN host.version
           first == From(OneOf(host.explicit), "explicit")
           explicit == Discovered(host, first)
           found == Discovered(host, Candidates(host))
           F == Range(cached_drive_scan(host))
<1>1. all = IF explicit # <<>> THEN explicit ELSE ByVersion(found)
    BY DEF discover_all
<1>2. Names(first, host.explicit) /\ \A c \in Range(first) : c.dir \in host.explicit
    <2> DEFINE dirs == OneOf(host.explicit)
    <2>1. IsList(dirs) /\ Range(dirs) = host.explicit
        BY OneOfList DEF HostType
    <2>2. DOMAIN first = DOMAIN dirs /\ \A k \in DOMAIN dirs : first[k].dir = dirs[k]
        BY DEF From
    <2> HIDE DEF dirs, first
    <2>3. \A c \in Range(first) : c.dir \in Range(dirs)
        BY <2>2 DEF Range
    <2> QED BY <2>1, <2>3, FromNames DEF first, dirs
<1>3. Names(Candidates(host), (Named(host) \cap valid) \cup F)
    BY CandidatesName
<1> DEFINE X == {c.dir : c \in Range(first)}
           Y == {c.dir : c \in Range(Candidates(host))}
<1>4. Finds(host, explicit, X) /\ X = host.explicit
    <2>1. Finds(host, explicit, X)
        <3> HIDE DEF first
        <3> QED BY <1>2, DiscoveredFinds DEF Names
    <2>2. X = host.explicit
        <3> HIDE DEF first
        <3> QED BY <1>2 DEF Names
    <2> QED BY <2>1, <2>2
<1>5. Finds(host, found, Y) /\ (Named(host) \cap valid) \cup F \subseteq Y
    <2>1. Finds(host, found, Y)
        BY <1>3, DiscoveredFinds DEF Names
    <2>2. (Named(host) \cap valid) \cup F \subseteq Y
        <3> HIDE DEF F
        <3> QED BY <1>3 DEF Names
    <2> QED BY <2>1, <2>2
<1> HIDE DEF explicit, found, X, Y, first, F
<1>6. \A s : IsList(s) /\ Range(s) = {} => s = <<>>
    <2>1. ASSUME NEW s, IsList(s), Range(s) = {}
          PROVE  s = <<>>
        <3>1. s \in Seq({})
            BY <2>1 DEF IsList
        <3> QED BY <3>1
    <2> QED BY <2>1
<1>7. CASE Overruled(host)
    <2>1. PICK d \in host.explicit : d \in valid
        BY <1>7 DEF Overruled
    <2>2. \E x \in Range(explicit) : x.dir = d
        BY <1>4, <2>1 DEF Finds
    <2>3. explicit # <<>>
        BY <2>2, EmptyList
    <2>4. all = explicit
        BY <1>1, <2>3
    <2> QED BY <1>4, <1>7, <2>3, <2>4 DEF Finds
<1>8. CASE ~Overruled(host)
    <2>1. host.explicit \cap valid = {}
        BY <1>8 DEF Overruled
    <2>2. Range(explicit) = {}
        BY <1>4, <2>1 DEF Finds, Install
    <2>3. all = ByVersion(found)
        BY <1>1, <1>4, <1>6, <2>2 DEF Finds
    <2>4. IsList(all) /\ Range(all) = Range(found)
        <3>1. IsList(found) /\ \A x \in Range(found) : x.version \in Nat
            BY <1>5 DEF Finds, Install
        <3> QED BY <2>3, <3>1, ByVersionKeeps
    <2>5. \A x \in Range(all) : Install(host, x)
        BY <1>5, <2>4 DEF Finds
    <2>6. \A d \in Y \cap valid : \E x \in Range(all) : x.dir = d
        BY <1>5, <2>4 DEF Finds
    <2>7. ASSUME all = <<>>
          PROVE  valid \cap (host.explicit \cup Named(host) \cup Scannable(host)) = {}
        <3>1. Range(all) = {}
            BY <2>7, EmptyList
        <3>2. Y \cap valid = {}
            BY <2>6, <3>1
        <3>3. Named(host) \cap valid = {} /\ F \cap valid = {}
            BY <1>5, <3>2
        <3>4. cached_drive_scan(host) = <<>>
            BY <3>3, CachedScanFinds DEF F
        <3>5. Scannable(host) \cap valid = {}
            BY <3>4, CachedScanFinds
        <3> QED BY <2>1, <3>3, <3>5
    <2> QED BY <1>5, <2>4, <2>5, <2>6, <2>7
<1> QED BY <1>7, <1>8

\* A version with a verified backend is known.
LEMMA ReadyIsKnown ==
    ASSUME NEW v, backend_status(v) = "ready"
    PROVE  v # Unknown
<1>1. DOMAIN KNOWN_BACKENDS = {92, 94}
    BY DEF KNOWN_BACKENDS
<1> QED BY <1>1 DEF backend_status, Unknown

\* resolve_with selects the best install there is, or reports that none would do.
LEMMA ResolveIsBest ==
    ASSUME NEW host, HostType(host), NEW req, NEW r, r = resolve_with(host, req)
    PROVE  IF r.ok THEN BestInstall(host, req, r.install) ELSE NothingWouldDo(host, req, r.error)
<1> DEFINE all == discover_all(host)
           matching == {k \in DOMAIN all : Satisfies(req, all[k].version)}
           ready == {k \in matching : backend_status(all[k].version) = "ready"}
           Top(K) == {k \in K : \A j \in K : all[j].version <= all[k].version}
           Best(K) == all[Max(Top(K))]
<1>1. r = IF all = <<>> THEN [ok |-> FALSE, error |-> "IdaNotFound"]
          ELSE IF matching = {} THEN [ok |-> FALSE, error |-> "IdaVersionMismatch"]
          ELSE IF ready # {} THEN [ok |-> TRUE, install |-> Best(ready)]
          ELSE IF req.latest THEN [ok |-> TRUE, install |-> Best(matching)]
          ELSE [ok |-> FALSE, error |-> "CapabilityUnavailable"]
    BY DEF resolve_with
<1>2. /\ IsList(all) /\ \A x \in Range(all) : Install(host, x)
      /\ \/ Overruled(host)
         \/ \A d \in Named(host) \cap DOMAIN host.version : \E x \in Range(all) : x.dir = d
      /\ all = <<>> => DOMAIN host.version \cap (host.explicit \cup Named(host) \cup Scannable(host)) = {}
    BY DiscoverAllFinds
<1> HIDE DEF all
<1>3. /\ Len(all) \in Nat /\ DOMAIN all = 1..Len(all)
      /\ \A k \in DOMAIN all : Install(host, all[k]) /\ all[k].version \in Nat
    <2>1. Len(all) \in Nat /\ DOMAIN all = 1..Len(all)
        BY <1>2 DEF IsList
    <2>2. \A k \in DOMAIN all : Install(host, all[k])
        BY <1>2 DEF Range
    <2> QED BY <2>1, <2>2 DEF Install
<1>4. ASSUME NEW K, K \subseteq DOMAIN all, K # {}
      PROVE  \E k \in K : Best(K) = all[k] /\ \A j \in K : all[j].version <= all[k].version
    <2>1. IsFiniteSet(K)
        <3>1. IsFiniteSet(DOMAIN all) /\ K \in SUBSET (DOMAIN all)
            BY <1>3, <1>4, FS_Interval
        <3> QED BY <3>1, FS_Subset
    <2> DEFINE score == [k \in K |-> all[k].version]
               tie == [k \in K |-> k]
    <2>2. /\ \A k \in K : score[k] \in Int
          /\ \A k \in K : tie[k] \in Int
          /\ \A k, j \in K : tie[k] = tie[j] => k = j
        BY <1>3, <1>4
    <2>3. \E k \in K : \A j \in K : score[j] <= score[k]
        <3> HIDE DEF score, tie
        <3>1. PICK some \in K : TRUE
            BY <1>4
        <3> QED BY <2>1, <2>2, <3>1, SomeIsBest
    <2>4. Top(K) # {} /\ Top(K) \subseteq 1..Len(all)
        BY <1>3, <1>4, <2>3, Zenon
    <2> DEFINE M == Top(K)
    <2>5. Max(M) \in M
        <3> HIDE DEF M
        <3>1. M # {} /\ M \subseteq 1..Len(all)
            BY <2>4 DEF M
        <3> QED BY <1>3, <3>1, FirstAndLast, Zenon
    <2> DEFINE top == Max(M)
    <2> HIDE DEF top
    <2>6. top \in K /\ \A j \in K : all[j].version <= all[top].version
        BY <2>5 DEF top
    <2> QED BY <2>6, Zenon DEF top
\* Unless an explicit directory overrules them, installs that would do are ready.
<1>5. ASSUME ~Overruled(host), NEW d \in Named(host), Would(host, req, d)
      PROVE  \E k \in ready : all[k].version = host.version[d]
    <2>1. d \in DOMAIN host.version /\ Satisfies(req, host.version[d])
          /\ backend_status(host.version[d]) = "ready"
        BY <1>5 DEF Would
    <2>2. PICK x \in Range(all) : x.dir = d
        BY <1>2, <1>5, <2>1
    <2>3. PICK k \in DOMAIN all : all[k] = x
        BY <2>2 DEF Range
    <2>4. all[k].version = host.version[d]
        BY <1>3, <2>1, <2>2, <2>3, ReadyIsKnown DEF Install
    <2> QED BY <2>1, <2>3, <2>4
<1>6. matching \subseteq DOMAIN all /\ ready \subseteq DOMAIN all /\ ready \subseteq matching
    OBVIOUS
<1>7. \A k \in matching : Satisfies(req, all[k].version)
    OBVIOUS
<1>8. \A k \in ready : backend_status(all[k].version) = "ready"
    OBVIOUS
<1> HIDE DEF matching, ready, Best
<1>9. CASE all = <<>>
    <2>1. r.ok = FALSE /\ r.error = "IdaNotFound"
        BY <1>1, <1>9
    <2>2. DOMAIN host.version \cap (host.explicit \cup Named(host) \cup Scannable(host)) = {}
        BY <1>2, <1>9
    <2>3. \A d \in Named(host) : ~Would(host, req, d)
        BY <2>2 DEF Would
    <2> QED BY <2>1, <2>2, <2>3 DEF NothingWouldDo
<1>10. ASSUME ready = {}
       PROVE  Overruled(host) \/ \A d \in Named(host) : ~Would(host, req, d)
    BY <1>5, <1>10
<1>11. CASE all # <<>> /\ matching = {}
    <2>1. r.ok = FALSE /\ r.error = "IdaVersionMismatch"
        BY <1>1, <1>11
    <2>2. ready = {}
        BY <1>6, <1>11
    <2> QED BY <1>10, <2>1, <2>2 DEF NothingWouldDo
<1>12. CASE all # <<>> /\ matching # {} /\ ready # {}
    <2>1. r.ok = TRUE /\ r.install = Best(ready)
        BY <1>1, <1>12
    <2>2. PICK k \in ready : /\ Best(ready) = all[k]
                             /\ \A j \in ready : all[j].version <= all[k].version
        BY <1>4, <1>6, <1>12
    <2> DEFINE i == all[k]
    <2>3. i.dir \in DOMAIN host.version /\ Satisfies(req, i.version) /\ backend_status(i.version) = "ready"
        BY <1>3, <1>6, <1>7, <1>8 DEF Install
    <2>4. ASSUME ~Overruled(host), NEW d \in Named(host), Would(host, req, d)
          PROVE  host.version[d] <= i.version
        BY <1>5, <2>2, <2>4
    <2>5. BestInstall(host, req, i)
        BY <2>3, <2>4 DEF BestInstall
    <2> QED BY <2>1, <2>2, <2>5
<1>13. CASE all # <<>> /\ matching # {} /\ ready = {} /\ req.latest
    <2>1. r.ok = TRUE /\ r.install = Best(matching)
        BY <1>1, <1>13
    <2>2. PICK k \in matching : Best(matching) = all[k]
        BY <1>4, <1>6, <1>13
    <2> DEFINE i == all[k]
    <2>3. i.dir \in DOMAIN host.version /\ Satisfies(req, i.version)
        BY <1>3, <1>6, <1>7 DEF Install
    <2>4. BestInstall(host, req, i)
        BY <1>10, <1>13, <2>3 DEF BestInstall
    <2> QED BY <2>1, <2>2, <2>4
<1>14. CASE all # <<>> /\ matching # {} /\ ready = {} /\ ~req.latest
    <2>1. r.ok = FALSE /\ r.error = "CapabilityUnavailable"
        BY <1>1, <1>14
    <2> QED BY <1>10, <1>14, <2>1 DEF NothingWouldDo
<1> QED BY <1>9, <1>11, <1>12, <1>13, <1>14
=============================================================================
