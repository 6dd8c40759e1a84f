------------------------------ MODULE Recovery ------------------------------
(***************************************************************************)
(* Evidence gathered over several functions: structure recovery            *)
(* (crates/rmcp-worker/src/types.rs) and constant values                   *)
(* (crates/rmcp-worker/src/valuean.rs).                                    *)
(*                                                                         *)
(* A member observation is [base, offset, width, write].  A call row is    *)
(* <<"call" or "icall", target, arguments>>, an argument being a constant  *)
(* or 0 when its text is not one.                                          *)
(***************************************************************************)
EXTENDS DeepWalk

(***************************************************************************)
(* recover_structure: one proposal per (base, offset).                     *)
(***************************************************************************)
Keys(rows) == {<<rows[k].base, rows[k].offset>> : k \in DOMAIN rows}

NoField == [reads |-> 0, writes |-> 0, widths |-> <<>>, functions |-> 0,
            pointer_candidate |-> FALSE]

Observe(fields, m) ==
    LET key == <<m.base, m.offset>>
        old == IF key \in DOMAIN fields THEN fields[key] ELSE NoField
        new == [old EXCEPT
                   !.reads = IF m.write THEN @ ELSE @ + 1,
                   !.writes = IF m.write THEN @ + 1 ELSE @,
                   !.widths = Append(@, m.width),
                   !.pointer_candidate = @ \/ m.width = 8]
    IN  [k \in DOMAIN fields \cup {key} |-> IF k = key THEN new ELSE fields[k]]

ObserveFunction(fields, rows) ==
    LET seen == FoldLeft(Observe, fields, rows)
    IN  [k \in DOMAIN seen |->
            IF k \in Keys(rows) THEN [seen[k] EXCEPT !.functions = @ + 1] ELSE seen[k]]

\* Mutant of width: the last width observed.
widthLast(field) == IF field.widths = <<>> THEN 0 ELSE Last(field.widths)

\* The most frequent known width, the larger one in a tie; 0 when none is known.
width(field) ==
    LET known == ToSet(field.widths) \ {0}
        times(w) == Len(SelectSeq(field.widths, LAMBDA x : x = w))
        modal == {w \in known : \A v \in known : times(v) <= times(w)}
    IN  IF known = {} THEN 0 ELSE Max(modal)

\* In hundredths of 24ths, so that eighths and thirds are integers.
confidence(field) ==
    LET sites == Min({field.reads + field.writes, 8})
        functions == Min({field.functions, 3})
    IN  Clamp(5 * 24, 45 * 3 * sites + 25 * 8 * functions
                      + (IF field.writes > 0 THEN 18 * 24 ELSE 0)
                      + (IF width(field) > 0 THEN 12 * 24 ELSE 0), 99 * 24)

candidate_type(field) ==
    IF field.pointer_candidate THEN "pointer"
    ELSE IF width(field) \in {1, 2, 4, 8} THEN "integer" ELSE "unknown"

\* functions: the observations of each function asked about, in the order given,
\* cut at max_members; unreadable ones contribute nothing.
recover_structure(functions, max_members) ==
    LET fields == FoldLeft(LAMBDA acc, rows : ObserveFunction(acc, Take(rows, max_members)),
                           [k \in {} |-> NoField], functions)
    IN  IF functions = <<>> THEN [ok |-> FALSE]
        ELSE [ok |-> TRUE,
              fields |-> [k \in DOMAIN fields |->
                             [reads |-> fields[k].reads, writes |-> fields[k].writes,
                              width |-> width(fields[k]), type |-> candidate_type(fields[k]),
                              confidence |-> confidence(fields[k]),
                              functions |-> fields[k].functions]],
              shape |-> [k \in DOMAIN fields |->
                            IF width(fields[k]) = 0 THEN 4 ELSE width(fields[k])],
              truncated |-> \E i \in DOMAIN functions : Len(functions[i]) > max_members]

type_vtable_scan(slots, max_entries) ==
    [slots |-> Take(slots, max_entries), truncated |-> FALSE]

(***************************************************************************)
(* value_analysis: constant arguments per (function, argument position),   *)
(* and one row per indirect call.  Names are not resolved (lookup_global   *)
(* finds none), so an indirect call has no proposals.                      *)
(***************************************************************************)
lookup_global(name) == {}

AddConstant(merged, key, v) ==
    [k \in DOMAIN merged \cup {key} |->
        (IF k \in DOMAIN merged THEN merged[k] ELSE {}) \cup (IF k = key THEN {v} ELSE {})]

CollectCall(f, max_calls, acc, row) ==
    LET args == [n \in DOMAIN row[3] |-> <<f, n, row[3][n]>>]
        constant == SelectSeq(args, LAMBDA a : a[3] # 0)
        withArgs == [acc EXCEPT !.merged =
                        FoldLeft(LAMBDA m, a : AddConstant(m, <<a[1], a[2]>>, a[3]), @, constant)]
    IN  IF row[1] = "call" THEN withArgs
        ELSE IF Len(acc.indirect) >= max_calls THEN [withArgs EXCEPT !.truncated = TRUE]
        ELSE [withArgs EXCEPT !.indirect =
                 Append(@, [function |-> f, proposals |-> lookup_global(row[2])])]

collect_function_values(prog, f, max_calls, acc) ==
    FoldLeft(LAMBDA a, row : CollectCall(f, max_calls, a, row), acc,
             deep_function_info(prog, f, max_calls))

\* One callee of the frontier; a break of the loop leaves the others.
ValueStep(prog, idx, budgets, acc, callee) ==
    IF acc.stop THEN acc
    ELSE IF Cardinality(acc.visited) >= budgets.max_functions
    THEN [acc EXCEPT !.truncated = TRUE, !.stop = TRUE]
    ELSE IF callee \in acc.visited \/ callee \notin DOMAIN idx
    THEN [acc EXCEPT !.visited = @ \cup {callee}]
    ELSE IF Cardinality(DOMAIN acc.merged) + Len(acc.indirect) >= budgets.max_calls
    THEN [acc EXCEPT !.visited = @ \cup {callee}, !.truncated = TRUE, !.stop = TRUE]
    ELSE IF callee \in budgets.undecompilable THEN [acc EXCEPT !.ok = FALSE, !.stop = TRUE]
    ELSE LET got == collect_function_values(prog, callee, budgets.max_calls, acc)
         IN  [got EXCEPT !.visited = @ \cup {callee}, !.next = @ \o idx[callee].callees]

\* Levels are counted from 1; time_left is asked once per level.
RECURSIVE ValueLevels(_, _, _, _, _)
ValueLevels(prog, idx, budgets, acc, level) ==
    IF level >= Max({budgets.depth, 1}) \/ acc.next = <<>> \/ ~acc.ok THEN acc
    ELSE IF level > budgets.deadline THEN [acc EXCEPT !.truncated = TRUE]
    ELSE ValueLevels(prog, idx, budgets,
                     FoldLeft(LAMBDA a, c : ValueStep(prog, idx, budgets, a, c),
                              [acc EXCEPT !.next = <<>>, !.stop = FALSE], acc.next),
                     level + 1)

\* A value seen alone is confirmed, up to four are a set, more are heuristic.
ValueConfidence(values) ==
    IF Cardinality(values) = 1 THEN "confirmed"
    ELSE IF Cardinality(values) <= 4 THEN "set" ELSE "heuristic"

value_analysis(prog, idx, root, budgets) ==
    LET none == [merged |-> [k \in {} |-> {}], indirect |-> <<>>, truncated |-> FALSE,
                 visited |-> {root}, next |-> Callees(idx, root), stop |-> FALSE, ok |-> TRUE]
        acc == ValueLevels(prog, idx, budgets,
                           collect_function_values(prog, root, budgets.max_calls, none), 1)
        before(j, k) == j[1] < k[1] \/ (j[1] = k[1] /\ j[2] < k[2])
        rows == Sorted(DOMAIN acc.merged, before)
        kept == ToSet(Take(rows, budgets.max_calls))
    IN  IF root \notin DOMAIN idx \/ root \in budgets.undecompilable \/ ~acc.ok
        THEN [ok |-> FALSE]
        ELSE [ok |-> TRUE,
              targets |-> [k \in kept |-> acc.merged[k]],
              confidence |-> [k \in kept |-> ValueConfidence(acc.merged[k])],
              indirect |-> Take(acc.indirect, budgets.max_calls),
              visited |-> acc.visited,
              truncated |-> acc.truncated \/ Len(rows) > budgets.max_calls
                            \/ Len(acc.indirect) > budgets.max_calls]
=============================================================================
