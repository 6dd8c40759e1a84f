--------------------------- MODULE AnalysisIndex ---------------------------
(***************************************************************************)
(* The index a worker builds of a database                                 *)
(* (crates/rmcp-ida/src/idalib_backend.rs, build_index) and the structured *)
(* queries it answers (crates/rmcp-core/src/analysis_index.rs).            *)
(*                                                                         *)
(* A program is a function from the start addresses of its functions to    *)
(* [name, body]: the kind of name a function has ("user", "noise" or       *)
(* "thunk") and its instructions, each a pair <<kind, operand>>.           *)
(***************************************************************************)
EXTENDS Lists, SequencesExt

MaxInsns == 200000
MinConstant == 65536

\* The instructions the index reads: it stops at its bound, and at bytes that do
\* not decode.
Walked(body) ==
    LET undecoded == {i \in DOMAIN body : body[i][1] = "undecodable"}
    IN  Take(body, Min({MaxInsns} \cup {i - 1 : i \in undecoded}))

\* What the instructions of one kind name, in program order.
Operands(body, kind) ==
    LET chosen == SelectSeq(body, LAMBDA i : i[1] = kind)
    IN  [i \in 1..Len(chosen) |-> chosen[i][2]]

\* One entry per call instruction whose target is a function, in program order.
CalleesOf(prog, f) ==
    SelectSeq(Operands(Walked(prog[f].body), "call"), LAMBDA t : t \in DOMAIN prog)

\* Caller lists are filled edge by edge, callers in address order.
CallersOf(prog, f) ==
    FlattenSeq([i \in 1..Cardinality(DOMAIN prog) |->
        LET g == Ascending(DOMAIN prog)[i]
        IN  [k \in 1..Len(SelectSeq(CalleesOf(prog, g), LAMBDA c : c = f)) |-> g]])

\* A call through a thunk also records the thunk's import.  Small immediates are
\* not constants.  Only indirect jumps are counted as indirect calls.
build_index(prog) ==
    [f \in DOMAIN prog |->
        [name      |-> prog[f].name,
         callees   |-> CalleesOf(prog, f),
         callers   |-> CallersOf(prog, f),
         imports   |-> {t \in ToSet(CalleesOf(prog, f)) : prog[t].name = "thunk"},
         strings   |-> ToSet(Operands(Walked(prog[f].body), "string")),
         constants |-> {v \in ToSet(Operands(Walked(prog[f].body), "const")) : v >= MinConstant},
         indirect_calls |-> Len(Operands(Walked(prog[f].body), "ijump"))]]

Callees(idx, f) == IF f \in DOMAIN idx THEN idx[f].callees ELSE <<>>

(***************************************************************************)
(* Queries.  matches returns whether the predicate holds and the number of *)
(* evidence items it reports, which is the score of a hit.                 *)
(***************************************************************************)
RECURSIVE reachableFrom(_, _, _, _, _)
reachableFrom(idx, frontier, seen, levels, target) ==
    LET called == UNION {ToSet(Callees(idx, f)) : f \in frontier}
    IN  /\ levels > 0
        /\ \/ target \in called
           \/ reachableFrom(idx, called \ seen, seen \cup called, levels - 1, target)

\* Mutant of reachable: one level too many.
reachableOneFurther(idx, root, levels, target) ==
    reachableFrom(idx, {root}, {root}, levels + 1, target)

reachable(idx, root, levels, target) ==
    reachableFrom(idx, {root}, {root}, levels, target)

NoMatch == [ok |-> FALSE, items |-> 0]
Match(n) == [ok |-> TRUE, items |-> n]
AnyOf(S) == IF S = {} THEN NoMatch ELSE Match(Cardinality(S))
When(holds) == IF holds THEN Match(1) ELSE NoMatch

RECURSIVE matches(_, _, _)
matches(p, f, idx) ==
    LET First(found, extra) ==
            LET hits == SelectSeq(found, LAMBDA m : m.ok)
            IN  IF hits = <<>> THEN NoMatch ELSE Match(hits[1].items + extra)
        Each(neighbours) ==
            LET known == SelectSeq(neighbours, LAMBDA g : g \in DOMAIN idx)
            IN  [i \in 1..Len(known) |-> matches(p.inner, known[i], idx)]
        Inner == [i \in 1..Len(p.list) |-> matches(p.list[i], f, idx)]
    IN  CASE p.kind = "name"           -> When(idx[f].name = p.arg)
          [] p.kind = "import"         -> AnyOf(idx[f].imports \cap {p.arg})
          [] p.kind = "string"         -> AnyOf(idx[f].strings \cap p.arg)
          [] p.kind = "indirect_calls" -> When(idx[f].indirect_calls >= p.arg)
          [] p.kind = "constant"       -> When(p.arg \in idx[f].constants)
          [] p.kind = "reachable_from" -> When(reachable(idx, p.root, p.levels, f))
          [] p.kind = "callee_matches" -> First(Each(idx[f].callees), 1)
          [] p.kind = "caller_matches" -> First(Each(idx[f].callers), 1)
          [] p.kind = "any"            -> First(Inner, 0)
          [] p.kind = "not"            -> When(~matches(p.inner, f, idx).ok)
          [] p.kind = "all"            ->
                IF \E i \in DOMAIN Inner : ~Inner[i].ok
                THEN NoMatch
                ELSE Match(FoldLeft(LAMBDA n, m : n + m.items, 0, Inner))

\* Functions in address order, cut at the limit, and only then ranked by score
\* (the sort is stable).
query(idx, predicates, limit) ==
    LET score(f) == matches([kind |-> "all", list |-> predicates], f, idx)
        found == SelectSeq(Ascending(DOMAIN idx),
                           LAMBDA f : score(f).ok /\ score(f).items > 0)
        kept == Take(found, Clamp(1, limit, 1000))
        before(f, g) == \/ score(f).items > score(g).items
                        \/ score(f).items = score(g).items /\ f < g
    IN  Sorted(ToSet(kept), before)
=============================================================================
