----------------------------- MODULE WasmValues -----------------------------
(***************************************************************************)
(* The value analysis of a WebAssembly body (crates/rmcp-wasm/src/ssa.rs). *)
(*                                                                         *)
(* A value is [constant, uses], constant being a set of 0 or 1 number; the *)
(* stack and the locals hold indices of values.  A read of a local nothing *)
(* was stored in pushes nothing, and a call leaves the stack alone.        *)
(***************************************************************************)
EXTENDS Lists

CONSTANT Half   \* half the numbers an i32 can be: 2^31

ASSUME HalfAssumption == Half \in Nat \ {0}

\* A body with more operators is refused.
MaxOperators == 5000000

Define(s, constant) ==
    [s EXCEPT !.values = Append(@, [constant |-> constant, uses |-> 0]),
              !.stack = Append(@, Len(s.values) + 1)]

\* A pop of the empty stack is a diagnostic.
PopUse(s) ==
    IF s.stack = <<>> THEN [s EXCEPT !.diagnostics = @ + 1]
    ELSE [s EXCEPT !.stack = AllButLast(@), !.values[LastOf(s.stack)].uses = @ + 1]

\* The number n-th from the top of the stack, if it is a known constant.
ConstantAt(s, n) ==
    IF n > Len(s.stack) THEN {} ELSE s.values[s.stack[Len(s.stack) - n + 1]].constant

WrapI32(n) ==
    LET m == n % (2 * Half)
    IN  IF m >= Half THEN m - 2 * Half ELSE m

\* Mutant of Fold: the operands of a subtraction are swapped.
FoldSwapped(op, x, y) ==
    CASE op = "add" -> {WrapI32(x + y)}
      [] op = "sub" -> {WrapI32(y - x)}
      [] op = "mul" -> {WrapI32(x * y)}
      [] OTHER      -> {}

Fold(op, x, y) ==
    CASE op = "add" -> {WrapI32(x + y)}
      [] op = "sub" -> {WrapI32(x - y)}
      [] op = "mul" -> {WrapI32(x * y)}
      [] OTHER      -> {}

Store(s, local) ==
    IF s.stack = <<>> THEN s
    ELSE [s EXCEPT !.locals = [l \in DOMAIN @ \cup {local} |->
                                  IF l = local THEN LastOf(s.stack) ELSE @[l]]]

\* A store to memory uses the value once more than it pops it.
StoreMemory(s) ==
    LET t == PopUse(PopUse(s))
    IN  IF Len(s.stack) < 2 THEN t ELSE [t EXCEPT !.values[LastOf(s.stack)].uses = @ + 1]

Binary == {"add", "sub", "mul", "and", "or", "xor", "eq", "ne", "lt_u", "ge_u"}

SsaStep(s, op) ==
    LET name == op[1]
    IN  IF s.done THEN s
        ELSE CASE name = "const" -> Define(s, {op[2]})
               [] name = "local.get" ->
                     IF op[2] \notin DOMAIN s.locals THEN s
                     ELSE [s EXCEPT !.stack = Append(@, s.locals[op[2]]),
                                    !.values[s.locals[op[2]]].uses = @ + 1]
               [] name = "local.set" -> PopUse(Store(s, op[2]))
               [] name = "local.tee" ->
                     LET t == PopUse(Store(s, op[2]))
                     IN  IF s.stack = <<>> THEN t
                         ELSE [t EXCEPT !.stack = Append(@, LastOf(s.stack))]
               [] name \in Binary ->
                     Define(PopUse(PopUse(s)),
                            UNION {Fold(name, x, y) : x \in ConstantAt(s, 2), y \in ConstantAt(s, 1)})
               [] name = "global.get" -> Define(s, {})
               [] name \in {"load", "eqz"} -> Define(PopUse(s), {})
               [] name = "store" -> StoreMemory(s)
               [] name \in {"global.set", "drop", "br_if", "br_table", "return"} -> PopUse(s)
               [] name = "end" -> [s EXCEPT !.done = TRUE]
               [] name = "call" -> s
               [] OTHER -> [s EXCEPT !.diagnostics = @ + 1]

\* The operators of a body without control flow and memory.
StraightLine ==
    ({"const"} \X Int) \cup ({"local.get", "local.set", "local.tee"} \X Nat)
    \cup {<<"add">>, <<"sub">>, <<"mul">>, <<"eq">>, <<"ne">>, <<"lt_u">>, <<"ge_u">>,
          <<"eqz">>, <<"drop">>}

SsaInit(n_params) ==
    [values |-> [i \in 1..n_params |-> [constant |-> {}, uses |-> 0]],
     locals |-> [l \in 0..(n_params - 1) |-> l + 1],
     stack |-> <<>>, diagnostics |-> 0, done |-> FALSE]

analyze_values(body, n_params) ==
    LET after[k \in 0..Len(body)] == IF k = 0 THEN SsaInit(n_params)
                                     ELSE SsaStep(after[k - 1], body[k])
    IN  after[Len(body)]
=============================================================================
