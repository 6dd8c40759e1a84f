------------------------------ MODULE DeepWalk ------------------------------
(***************************************************************************)
(* The recursive decompilation and the data-flow trace of                  *)
(* crates/rmcp-worker/src/deep.rs.  A walk holds the dossiers (what is     *)
(* kept of each decompiled function), the visited set and the frontier, a  *)
(* stack of <<address, depth>>.  budgets.deadline is the number of         *)
(* functions that are considered before the wall clock runs out.           *)
(***************************************************************************)
EXTENDS AnalysisIndex

\* The call sites the decompiler reports, cut at max_calls.
deep_function_info(prog, f, max_calls) ==
    Take(SelectSeq(prog[f].body, LAMBDA i : i[1] \in {"call", "icall"}), max_calls)

extract_call_sites(rows) ==
    [direct |-> Operands(rows, "call"), indirect |-> Len(Operands(rows, "icall"))]

OutOfBudget(budgets, w, depth) ==
    \/ Cardinality(w.visited) + 1 > budgets.max_functions
    \/ depth >= budgets.depth
    \/ Len(w.decompiled) >= budgets.deadline

\* Direct callees that are indexed and not yet decompiled go on the stack.
Expand(idx, w, targets, depth) ==
    FoldLeft(LAMBDA stack, t :
                IF t \in DOMAIN idx /\ t \notin DOMAIN w.dossiers
                THEN Append(stack, <<t, depth>>) ELSE stack,
             Front(w.frontier), targets)

\* Running out of budget leaves the loop with the function still on the stack;
\* a failed decompilation abandons the whole request.
RECURSIVE Descend(_, _, _, _)
Descend(prog, idx, budgets, w) ==
    IF w.frontier = <<>> THEN w
    ELSE LET ea == Last(w.frontier)[1]
             depth == Last(w.frontier)[2]
             sites == extract_call_sites(deep_function_info(prog, ea, budgets.max_calls))
             entered == [w EXCEPT
                            !.visited = @ \cup {ea},
                            !.decompiled = Append(@, ea),
                            !.dossiers = [x \in DOMAIN @ \cup {ea} |->
                                             IF x = ea THEN sites ELSE @[x]]]
         IN  IF \/ ea \in DOMAIN w.dossiers \cup w.visited
                \/ ea \notin DOMAIN idx
             THEN Descend(prog, idx, budgets, [w EXCEPT !.frontier = Front(@)])
             ELSE IF OutOfBudget(budgets, w, depth) THEN [w EXCEPT !.budget_hit = TRUE]
             ELSE IF ea \in budgets.undecompilable THEN [w EXCEPT !.ok = FALSE]
             ELSE Descend(prog, idx, budgets,
                          [entered EXCEPT
                              !.frontier = Expand(idx, entered, sites.direct, depth + 1)])

\* Mutant of Restore: the function the walk stopped at counts as done.
RestoreSkipsOne(token) ==
    [dossiers |-> [f \in DOMAIN token.dossiers |->
                      [direct |-> <<>>, indirect |-> token.dossiers[f].indirect]],
     visited |-> DOMAIN token.dossiers, frontier |-> Front(token.pending)]

\* A token's dossiers come back without their call sites: the token stores them
\* as direct_calls, and callees is read.
Restore(token) ==
    [dossiers |-> [f \in DOMAIN token.dossiers |->
                      [direct |-> <<>>, indirect |-> token.dossiers[f].indirect]],
     visited |-> DOMAIN token.dossiers, frontier |-> token.pending]

Fresh(root) ==
    [dossiers |-> [f \in {} |-> 0], visited |-> {}, frontier |-> << <<root, 0>> >>]

\* The convergence loop: in an iteration a function is rechecked only when one
\* of its callees changed earlier in the same iteration.
RECURSIVE Converge(_, _, _, _)
Converge(dossiers, dirty, improved, iterations) ==
    LET changed == FoldLeft(LAMBDA now, f :
                                IF f \in improved /\ ToSet(dossiers[f].direct) \cap now # {}
                                THEN now \cup {f} ELSE now,
                            {}, Ascending(dirty \cap DOMAIN dossiers))
        callers == {f \in DOMAIN dossiers : ToSet(dossiers[f].direct) \cap changed # {}}
    IN  IF iterations = 0 THEN FALSE
        ELSE \/ changed = {}
             \/ callers = {}
             \/ Converge(dossiers, callers, improved, iterations - 1)

\* improved: the functions whose prototype IDA would now report differently.
deep_function(prog, idx, root, budgets, start, improved) ==
    LET w == Descend(prog, idx, budgets, start @@
                     [decompiled |-> <<>>, budget_hit |-> FALSE, ok |-> TRUE])
        called == UNION {ToSet(w.dossiers[f].direct) : f \in DOMAIN w.dossiers}
    IN  IF root \notin DOMAIN idx \/ ~w.ok THEN [ok |-> FALSE, decompiled |-> w.decompiled]
        ELSE [ok         |-> TRUE,
              functions  |-> w.dossiers,
              skipped    |-> (called \cap DOMAIN idx) \ w.visited,
              converged  |-> Converge(w.dossiers, w.visited, improved, budgets.max_iterations),
              budget_hit |-> w.budget_hit,
              decompiled |-> w.decompiled,
              resume     |-> IF w.budget_hit
                             THEN {[root |-> root, pending |-> w.frontier,
                                    dossiers |-> w.dossiers]}
                             ELSE {}]

(***************************************************************************)
(* trace_dataflow: rounds over callees, callers or both, collecting the    *)
(* call sites of each function as evidence.                                *)
(***************************************************************************)
\* Mutant of Along: both directions are taken to be one.
AlongOneWay(idx, f, direction) ==
    IF direction = "backward" THEN idx[f].callers ELSE idx[f].callees

Along(idx, f, direction) ==
    CASE direction = "forward" -> idx[f].callees
      [] direction = "both"    -> idx[f].callees \o idx[f].callers
      [] OTHER                 -> idx[f].callers

Evidence(prog, f, direction, max_calls) ==
    LET rows == SelectSeq(deep_function_info(prog, f, max_calls),
                          LAMBDA r : direction = "backward" => r[1] = "call")
    IN  [i \in 1..Len(rows) |-> <<f, rows[i]>>]

TraceOne(prog, idx, direction, budgets, t, cur) ==
    LET rows == t.evidence \o Evidence(prog, cur, direction, budgets.max_calls)
        full == Len(rows) >= budgets.max_calls /\ Len(rows) > Len(t.evidence)
    IN  IF t.truncated \/ cur \in t.visited THEN t
        ELSE IF Cardinality(t.visited) + 1 > budgets.max_functions
        THEN [t EXCEPT !.visited = @ \cup {cur}, !.truncated = TRUE]
        ELSE IF cur \in budgets.undecompilable THEN [t EXCEPT !.visited = @ \cup {cur}]
        ELSE [visited   |-> t.visited \cup {cur},
              evidence  |-> Take(rows, budgets.max_calls),
              truncated |-> full,
              next      |-> IF full THEN t.next ELSE t.next \o Along(idx, cur, direction)]

RECURSIVE TraceRounds(_, _, _, _, _, _)
TraceRounds(prog, idx, direction, budgets, t, rounds) ==
    IF rounds = 0 \/ t.truncated THEN t
    ELSE TraceRounds(prog, idx, direction, budgets,
                     FoldLeft(LAMBDA a, cur : TraceOne(prog, idx, direction, budgets, a, cur),
                              [t EXCEPT !.next = <<>>], t.next),
                     rounds - 1)

trace_dataflow(prog, idx, target, direction, budgets) ==
    IF target \notin DOMAIN idx THEN [ok |-> FALSE]
    ELSE LET t == TraceRounds(prog, idx, direction, budgets,
                              [visited |-> {}, evidence |-> <<>>, truncated |-> FALSE,
                               next |-> <<target>>], budgets.depth)
         IN  [ok |-> TRUE, evidence |-> t.evidence, truncated |-> t.truncated,
              visited |-> t.visited]
=============================================================================
