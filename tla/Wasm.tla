-------------------------------- MODULE Wasm --------------------------------
(***************************************************************************)
(* The WebAssembly engine (crates/rmcp-wasm/src: module.rs, cfg.rs,        *)
(* calls.rs, pseudo.rs; ssa.rs is WasmValues) and its tool                 *)
(* (crates/rmcp-broker/src/wasm_tools.rs).                                 *)
(*                                                                         *)
(* A module is a sequence of payloads [section, items], in the order the   *)
(* parser yields them.  A body is a sequence of operators <<name, operand  *)
(* ...>>; the offset of an operator is its position.                       *)
(***************************************************************************)
EXTENDS WasmValues, SequencesExt

(***************************************************************************)
(* parse_with_budget.  Defined functions follow the imported ones in the   *)
(* index space; code entries are attached in order.                        *)
(***************************************************************************)
NoModel == [ok |-> TRUE, types |-> <<>>, functions |-> <<>>, imported |-> 0,
            elements |-> <<>>, cursor |-> 0]

\* A type is the number of its results; a continuation type, -1, is refused.
AddTypes(m, types, budget) ==
    [m EXCEPT !.types = @ \o types,
              !.ok = Len(m.types) + Len(types) <= budget /\ -1 \notin ToSet(types)]

AddFunctions(m, types, budget) ==
    IF Len(m.functions) + Len(types) > budget THEN [m EXCEPT !.ok = FALSE]
    ELSE [m EXCEPT !.functions = @ \o [i \in DOMAIN types |->
             [index |-> m.imported + i - 1, type |-> types[i], name |-> "none",
              locals |-> 0, code |-> <<>>]]]

\* More code entries than declared functions is refused.
AddCode(m, entry) ==
    IF m.cursor >= Len(m.functions) THEN [m EXCEPT !.ok = FALSE]
    ELSE [m EXCEPT !.cursor = @ + 1, !.functions[m.cursor + 1].locals = entry.locals,
                   !.functions[m.cursor + 1].code = entry.code]

\* A passive segment is recorded for table 0 without an offset.
AddElement(m, seg, budget) ==
    IF Len(m.elements) >= budget THEN [m EXCEPT !.ok = FALSE]
    ELSE [m EXCEPT !.elements = Append(@,
             IF seg.mode = "active" THEN [table |-> seg.table, offset |-> {seg.offset},
                                          funcs |-> seg.funcs]
             ELSE [table |-> 0, offset |-> {}, funcs |-> seg.funcs])]

\* Names of functions that are not defined here are dropped.
SetName(m, index, name) ==
    [m EXCEPT !.functions = [k \in DOMAIN @ |->
        IF @[k].index = index THEN [@[k] EXCEPT !.name = name] ELSE @[k]]]

ReadPayload(m, p, budget) ==
    IF ~m.ok THEN m
    ELSE CASE p.section = "import" ->
                 [m EXCEPT !.imported = @ + Len(SelectSeq(p.items, LAMBDA k : k = "func"))]
           [] p.section = "type" -> AddTypes(m, p.items, budget.max_types)
           [] p.section = "function" -> AddFunctions(m, p.items, budget.max_functions)
           [] p.section = "element" ->
                 FoldLeft(LAMBDA a, s : IF a.ok THEN AddElement(a, s, budget.max_elements) ELSE a,
                          m, p.items)
           [] p.section = "code" ->
                 FoldLeft(LAMBDA a, c : IF a.ok THEN AddCode(a, c) ELSE a, m, p.items)
           [] p.section = "name" ->
                 FoldLeft(LAMBDA a, n : SetName(a, n[1], n[2]), m, p.items)
           [] OTHER -> m

parse_with_budget(payloads, budget) ==
    FoldLeft(LAMBDA m, p : ReadPayload(m, p, budget), NoModel, payloads)

(***************************************************************************)
(* analyze_body: structured regions.  Region 0, the function, has no row.  *)
(***************************************************************************)
Opening == {"block", "loop", "if", "try"}

\* Mutant of resolve_label: depths count from one.
resolve_labelFromOne(stack, depth) ==
    IF depth < Len(stack) /\ depth > 0 THEN {stack[Len(stack) - depth + 1]} ELSE {}

resolve_label(stack, depth) ==
    IF depth < Len(stack) THEN {stack[Len(stack) - depth]} ELSE {}

record_branch(regions, id, pos) ==
    IF id \in DOMAIN regions
    THEN [regions EXCEPT ![id].branch_sources = Append(@, pos)] ELSE regions

Branch(s, depths, pos) ==
    FoldLeft(LAMBDA a, d : LET to == resolve_label(a.stack, d)
                           IN  IF to = {} THEN [a EXCEPT !.diagnostics = @ + 1]
                               ELSE [a EXCEPT !.regions =
                                        record_branch(@, CHOOSE id \in to : TRUE, pos)],
             s, depths)

\* Targets of a br_table that are out of range are dropped silently.
BranchTable(s, depths, pos) ==
    LET inRange == SelectSeq(depths, LAMBDA d : resolve_label(s.stack, d) # {})
    IN  [Branch(s, inRange, pos) EXCEPT !.br_tables = Append(@, <<pos, Len(inRange)>>)]

OpenRegion(s, kind, pos) ==
    LET id == Len(s.regions) + 1
    IN  [s EXCEPT !.regions = Append(@, [kind |-> kind, has_else |-> FALSE, start |-> pos,
                                         end |-> 0, parent |-> Last(s.stack),
                                         branch_sources |-> <<>>]),
                  !.stack = Append(@, id),
                  !.diagnostics = IF kind = "try" THEN @ + 1 ELSE @]

CloseRegion(s, pos) ==
    LET id == Last(s.stack)
    IN  [s EXCEPT !.stack = Front(@), !.done = Len(s.stack) = 1,
                  !.regions = IF id \in DOMAIN @ THEN [@ EXCEPT ![id].end = pos] ELSE @]

MaxRegions == 1000000

\* The whole analysis fails at an operator that does not decode ("bad") and over a
\* budget; the number of regions is only looked at when a block opens one.
Refused(s, op, pos) ==
    \/ op[1] = "bad"
    \/ pos > MaxOperators
    \/ op[1] = "block" /\ Len(s.regions) + 2 > MaxRegions

CfgStep(body, s, pos) ==
    LET op == body[pos]
    IN  IF s.done \/ s.failed THEN s
        ELSE IF Refused(s, op, pos) THEN [s EXCEPT !.failed = TRUE]
        ELSE CASE op[1] \in Opening -> OpenRegion(s, op[1], pos)
               [] op[1] = "else" ->
                     LET id == Last(s.stack)
                     IN  IF id \in DOMAIN s.regions /\ s.regions[id].kind = "if"
                         THEN [s EXCEPT !.regions[id].has_else = TRUE] ELSE s
               [] op[1] \in {"br", "br_if"} -> Branch(s, <<op[2]>>, pos)
               [] op[1] = "br_table" -> BranchTable(s, op[2], pos)
               [] op[1] = "call" -> [s EXCEPT !.calls = Append(@, <<pos, op[2]>>)]
               [] op[1] = "return_call" -> [s EXCEPT !.calls = Append(@, <<pos, op[2]>>),
                                                     !.diagnostics = @ + 1]
               [] op[1] = "return_call_indirect" -> [s EXCEPT !.diagnostics = @ + 1]
               [] op[1] = "call_indirect" ->
                     [s EXCEPT !.indirect_calls = Append(@, <<pos, op[2], op[3]>>)]
               [] op[1] = "end" -> CloseRegion(s, pos)
               [] OTHER -> s

analyze_body(body) ==
    LET s == FoldLeft(LAMBDA a, pos : CfgStep(body, a, pos),
                      [regions |-> <<>>, stack |-> <<0>>, calls |-> <<>>,
                       indirect_calls |-> <<>>, br_tables |-> <<>>, diagnostics |-> 0,
                       done |-> FALSE, failed |-> FALSE],
                      [i \in DOMAIN body |-> i])
    IN  [s EXCEPT !.diagnostics = IF Len(s.stack) > 1 THEN @ + 1 ELSE @]

(***************************************************************************)
(* resolve_indirect: one site <<offset, type, table>>; known is the        *)
(* constant table index of the site, as a set of 0 or 1 number.  The tool  *)
(* passes none.                                                            *)
(***************************************************************************)
resolve_indirect(model, site, known) ==
    LET Typed(f) == \E k \in DOMAIN model.functions :
                        model.functions[k].index = f /\ model.functions[k].type = site[2]
        compatible == {model.functions[k].index : k \in {k \in DOMAIN model.functions :
                                                     model.functions[k].type = site[2]}}
        segs == SelectSeq(model.elements, LAMBDA e : e.table = site[3])
        in_table == (UNION {ToSet(segs[k].funcs) : k \in DOMAIN segs}) \cap compatible
        Covers(e, i) == \E o \in e.offset : o <= i /\ i - o < Len(e.funcs)
        Slot(e, i) == e.funcs[i - (CHOOSE o \in e.offset : TRUE) + 1]
        Known(i) ==
            LET covering == SelectSeq(segs, LAMBDA e : Covers(e, i))
            IN  IF covering # <<>> /\ Typed(Slot(covering[1], i))
                THEN [confidence |-> "confirmed", targets |-> {Slot(covering[1], i)}]
                ELSE [confidence |-> "unresolved", targets |-> compatible]
    IN  IF known # {} THEN Known(CHOOSE i \in known : TRUE)
        ELSE [confidence |-> IF in_table = {} THEN "unresolved" ELSE "candidate",
              targets |-> in_table]

(***************************************************************************)
(* render: the lines of the pseudocode, <<kind, indentation, offset>>.     *)
(* Operators that only build an expression print no line.  A try construct *)
(* is an opaque operator.                                                  *)
(***************************************************************************)
Line(r, kind, indent, pos) == [r EXCEPT !.lines = Append(@, <<kind, indent, pos>>)]

Below(n) == IF n > 0 THEN n - 1 ELSE 0

\* A call with a result is an expression; a callee that is imported, or whose
\* type is not in the model, counts as one without.
Returns(model, callee) ==
    \E k \in DOMAIN model.functions :
        /\ model.functions[k].index = callee
        /\ model.functions[k].type + 1 \in DOMAIN model.types
        /\ model.types[model.functions[k].type + 1] > 0

Expression(model, op) ==
    \/ op[1] \in Binary \cup {"const", "local.get", "global.get", "load", "eqz", "drop",
                             "call_indirect"}
    \/ op[1] = "call" /\ Returns(model, op[2])

RenderStep(model, body, r, pos) ==
    LET name == body[pos][1]
    IN  IF r.done \/ Expression(model, body[pos]) THEN r
        ELSE CASE name \in {"block", "loop", "if"} ->
                     [Line(r, "open", r.indent, pos) EXCEPT !.indent = @ + 1]
               [] name = "else" ->
                     [Line(r, "else", Below(r.indent), pos) EXCEPT !.indent = Below(@) + 1]
               [] name = "end" ->
                     IF r.indent > 1
                     THEN [Line(r, "close", r.indent - 1, pos) EXCEPT !.indent = @ - 1]
                     ELSE [Line(r, "close", 0, pos) EXCEPT !.done = TRUE]
               [] OTHER -> Line(r, "statement", r.indent, pos)

render(model, body) ==
    FoldLeft(LAMBDA r, pos : RenderStep(model, body, r, pos),
             [lines |-> <<>>, indent |-> 1, done |-> FALSE],
             [i \in DOMAIN body |-> i])

(***************************************************************************)
(* The tool slices the code entry from the start of its locals, so the     *)
(* analyses read the declaration of n <= 4 locals as operators: a count,   *)
(* then the size and the type of one group.  A function without a code     *)
(* entry has an empty slice.                                               *)
(***************************************************************************)
LocalsAsOperators(n) ==
    CASE n = 0 -> << <<"unreachable">> >>
      [] n = 2 -> << <<"nop">>, <<"block">> >>
      [] n = 3 -> << <<"nop">>, <<"loop">> >>
      [] n = 4 -> << <<"nop">>, <<"if">> >>
      [] n = 1 -> << <<"nop">>, <<"nop">>, <<"div">> >>

Found(model, index) == {k \in DOMAIN model.functions : model.functions[k].index = index}

tool_wasm(model, ida_functions, action, index) ==
    LET f == model.functions[CHOOSE k \in Found(model, index) : TRUE]
        body == IF f.code = <<>> THEN <<>> ELSE LocalsAsOperators(f.locals) \o f.code
        cfg == analyze_body(body)
    IN  CASE action = "info" ->
                [ok |-> TRUE, function_count_confirmed |-> Len(ida_functions) = Len(model.functions)]
          [] action = "functions" ->
                [ok |-> TRUE, rows |-> [k \in DOMAIN model.functions |->
                    [wasm_index |-> model.functions[k].index, name |-> model.functions[k].name,
                     ida |-> IF k \in DOMAIN ida_functions THEN {ida_functions[k]} ELSE {}]]]
          [] Found(model, index) = {} \/ cfg.failed -> [ok |-> FALSE]
          [] action = "cfg" -> [ok |-> TRUE, cfg |-> cfg]
          [] action = "pseudocode" -> [ok |-> TRUE, lines |-> render(model, body).lines]
          [] action = "indirect_targets" ->
                [ok |-> TRUE, targets |-> [k \in DOMAIN cfg.indirect_calls |->
                    resolve_indirect(model, cfg.indirect_calls[k], {})]]
=============================================================================
