------------------------- MODULE MatchingReference -------------------------
(***************************************************************************)
(* What a block diff must account for and what makes two functions the     *)
(* same, from the blocks and the functions alone.                          *)
(***************************************************************************)
EXTENDS CodeMatching

\* Every block is in exactly one row.  Equal rows join equal blocks, and of two equal
\* blocks at least one is in such a row.  Nothing below the threshold is paired, and
\* no removed and added block are similar enough to be a pair.
AccountsFor(a, b, threshold, rows) ==
    LET Of(kind) == {k \in DOMAIN rows : rows[k].kind = kind}
    IN  /\ \A i \in DOMAIN a : Cardinality({k \in DOMAIN rows : rows[k].a = i}) = 1
        /\ \A j \in DOMAIN b : Cardinality({k \in DOMAIN rows : rows[k].b = j}) = 1
        /\ \A k \in Of("equal") : a[rows[k].a] = b[rows[k].b]
        /\ \A i \in DOMAIN a, j \in DOMAIN b :
              a[i] = b[j] => \E k \in Of("equal") : rows[k].a = i \/ rows[k].b = j
        /\ \A k \in Of("modified") : block_similarity(a[rows[k].a], b[rows[k].b]) >= threshold
        /\ \A k \in Of("removed"), l \in Of("added") :
              block_similarity(a[rows[k].a], b[rows[l].b]) < threshold

\* What the similarity of two functions is computed from.
FamilyEvidence(f) == <<f.imports, f.strings, f.constants, f.callees, f.callers, f.size>>

SameContent(f, g) ==
    f.imports = g.imports /\ f.strings = g.strings /\ f.constants = g.constants /\ f.size = g.size

\* "Skip tiny/no-evidence functions: mapping them is noise."
Mappable(f) == f.size >= 16 \/ f.imports # {} \/ f.constants # {}

Distinguished(functions) ==
    \A i, j \in DOMAIN functions : functions[i].name = functions[j].name => i = j
=============================================================================
