----------------------------- MODULE Workflows -----------------------------
(***************************************************************************)
(* The composite workflows of crates/rmcp-worker/src/workflow.rs over an   *)
(* analysis index: bounded walks of the call graph.  A walk keeps the set  *)
(* of visited functions, the next frontier (in discovery order) and the    *)
(* call edges it has reported.                                             *)
(***************************************************************************)
EXTENDS AnalysisIndex

MaxFunctions(budgets) == Clamp(1, budgets.max_functions, 50)

is_noise(facts) == facts.name \in {"noise", "thunk"}

\* Callees without facts are kept.
filter_noise(idx, eas, include) ==
    SelectSeq(eas, LAMBDA f : include \/ f \notin DOMAIN idx \/ ~is_noise(idx[f]))

\* One function of the frontier: its callees until the budget is reached.
VisitCallees(idx, budgets, walk, cur) ==
    FoldLeft(LAMBDA w, c :
                IF Cardinality(w.visited) >= MaxFunctions(budgets) THEN w
                ELSE [visited |-> w.visited \cup {c},
                      next    |-> IF c \in w.visited THEN w.next ELSE Append(w.next, c),
                      edges   |-> Append(w.edges, <<cur, c>>)],
             walk, filter_noise(idx, Callees(idx, cur), budgets.include_noise))

RECURSIVE WalkCalls(_, _, _, _)
WalkCalls(idx, budgets, walk, rounds) ==
    IF rounds = 0 THEN walk
    ELSE WalkCalls(idx, budgets,
                   FoldLeft(LAMBDA w, cur : VisitCallees(idx, budgets, w, cur),
                            [walk EXCEPT !.next = <<>>], walk.next),
                   rounds - 1)

WalkFrom(idx, roots, budgets) ==
    WalkCalls(idx, budgets,
              [visited |-> ToSet(roots), next |-> roots, edges |-> <<>>], budgets.depth)

Failed == [ok |-> FALSE]

function_context(idx, ea) ==
    IF ea \notin DOMAIN idx THEN Failed
    ELSE [ok |-> TRUE, facts |-> idx[ea]]

\* Mutant of call_neighborhood: a walk that stopped at the budget is not flagged.
call_neighborhoodUnflagged(idx, ea, budgets) ==
    IF ea \notin DOMAIN idx THEN Failed
    ELSE LET walk == WalkFrom(idx, <<ea>>, budgets)
         IN  [ok |-> TRUE, functions |-> walk.visited, edges |-> walk.edges,
              truncated |-> Cardinality(walk.visited) > MaxFunctions(budgets)]

\* Leaving the loops once the budget is reached changes nothing: VisitCallees
\* no longer adds anything then.
call_neighborhood(idx, ea, budgets) ==
    IF ea \notin DOMAIN idx THEN Failed
    ELSE LET walk == WalkFrom(idx, <<ea>>, budgets)
         IN  [ok |-> TRUE, functions |-> walk.visited, edges |-> walk.edges,
              truncated |-> Cardinality(walk.visited) >= MaxFunctions(budgets)]

\* The walk stops at the budget, so more than the budget is visited only when
\* there are more roots than that.
subsystem_context(idx, roots, budgets) ==
    IF roots = <<>> \/ ~(ToSet(roots) \subseteq DOMAIN idx) THEN Failed
    ELSE LET walk == WalkFrom(idx, roots, budgets)
             listed == Take(Ascending(walk.visited), MaxFunctions(budgets))
         IN  [ok |-> TRUE, functions |-> ToSet(listed) \cap DOMAIN idx, edges |-> walk.edges,
              truncated |-> Cardinality(walk.visited) > MaxFunctions(budgets)]

MaxReferences == 100

\* The function a reference comes from is the one with the greatest start at
\* or below it; it is listed the first time it is met.  References beyond the
\* hundredth are not looked at.
reference_context(idx, xrefs, budgets) ==
    LET ContainedIn(from) == Max({f \in DOMAIN idx : f <= from})
        known == SelectSeq(Take(xrefs, MaxReferences), LAMBDA from : \E f \in DOMAIN idx : f <= from)
        home == [k \in DOMAIN known |-> ContainedIn(known[k])]
        met == Ascending({k \in DOMAIN known : \A j \in 1..(k - 1) : home[j] # home[k]})
        listed == Take([i \in DOMAIN met |-> home[met[i]]], MaxFunctions(budgets))
    IN  [ok |-> TRUE, functions |-> ToSet(listed),
         truncated |-> Len(listed) >= MaxFunctions(budgets)]

import_usage(idx, name, budgets) ==
    LET users == SelectSeq(Ascending(DOMAIN idx), LAMBDA f : name \in idx[f].imports)
        listed == Take(users, MaxFunctions(budgets))
    IN  [ok |-> TRUE, functions |-> ToSet(listed),
         truncated |-> Len(listed) >= MaxFunctions(budgets)]

\* Breadth first, remembering the parent of each function found.  The rounds
\* end early when the target is met in the frontier.
RECURSIVE FindParents(_, _, _, _, _)
FindParents(idx, parents, frontier, to, rounds) ==
    LET Adopt(acc, cur) ==
            FoldLeft(LAMBDA a, c :
                        IF c \in DOMAIN a.parents THEN a
                        ELSE [parents |-> [x \in DOMAIN a.parents \cup {c} |->
                                              IF x = c THEN cur ELSE a.parents[x]],
                              next |-> Append(a.next, c)],
                     acc, Callees(idx, cur))
        before == IF Contains(frontier, to)
                  THEN SubSeq(frontier, 1, SelectInSeq(frontier, LAMBDA f : f = to) - 1)
                  ELSE frontier
        round == FoldLeft(Adopt, [parents |-> parents, next |-> <<>>], before)
    IN  IF rounds = 0 THEN parents
        ELSE IF Contains(frontier, to) THEN round.parents
        ELSE FindParents(idx, round.parents, round.next, to, rounds - 1)

RECURSIVE PathBack(_, _, _)
PathBack(parents, from, cur) ==
    IF cur = from THEN <<from>> ELSE Append(PathBack(parents, from, parents[cur]), cur)

trace_call_path(idx, from, to, budgets) ==
    LET parents == FindParents(idx, [x \in {from} |-> from], <<from>>, to, budgets.depth)
    IN  IF to \in DOMAIN parents
        THEN [found |-> TRUE, path |-> PathBack(parents, from, to)]
        ELSE [found |-> FALSE, path |-> <<>>]

run(idx, req) ==
    CASE req.workflow = "function_context"  -> function_context(idx, req.ea)
      [] req.workflow = "call_neighborhood" -> call_neighborhood(idx, req.ea, req.budgets)
      [] req.workflow = "reference_context" -> reference_context(idx, req.xrefs, req.budgets)
      [] req.workflow = "import_usage"      -> import_usage(idx, req.name, req.budgets)
      [] req.workflow = "subsystem_context" -> subsystem_context(idx, req.roots, req.budgets)
      [] req.workflow = "trace_call_path"   -> trace_call_path(idx, req.ea, req.to, req.budgets)
=============================================================================
