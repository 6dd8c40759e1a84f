------------------------------- MODULE Lists -------------------------------
(***************************************************************************)
(* The library operations on lists that the analyses share: clamping,      *)
(* truncating and sorting (Ord::clamp, Iterator::take, slice::sort_by).    *)
(***************************************************************************)
EXTENDS Integers, Sequences, FiniteSets, FiniteSetsExt

LastOf(s) == s[Len(s)]
AllButLast(s) == SubSeq(s, 1, Len(s) - 1)

Clamp(low, n, high) == IF n < low THEN low ELSE IF n > high THEN high ELSE n

\* The iterator adapter take(n).
Take(s, n) == SubSeq(s, 1, IF n < Len(s) THEN n ELSE Len(s))

\* The elements of S when lower[x] are those before x: the k-th has k - 1 before it.
Arranged(S, lower) ==
    [k \in 1..Cardinality(S) |-> CHOOSE x \in S : Cardinality(lower[x]) = k - 1]

Sorted(S, before(_, _)) == Arranged(S, [x \in S |-> {y \in S : before(y, x)}])

Ascending(S) == Sorted(S, <)
=============================================================================
