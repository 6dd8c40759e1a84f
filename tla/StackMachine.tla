---------------------------- MODULE StackMachine ----------------------------
(***************************************************************************)
(* The stack machine of WebAssembly itself, on the numbers modulo 2^32: a  *)
(* reference for the value analysis.  A local that is no parameter starts  *)
(* as zero.  The machine is not defined when the stack has too few         *)
(* operands, which no valid body does.                                     *)
(***************************************************************************)
EXTENDS WasmValues

I32 == 0..(2 * Half - 1)

Modulo(n) == n % (2 * Half)

Truth(b) == IF b THEN 1 ELSE 0

Needs(op) ==
    CASE op[1] \in {"const", "local.get"} -> 0
      [] op[1] \in {"local.set", "local.tee", "eqz", "drop"} -> 1
      [] OTHER -> 2

Compute(name, x, y) ==
    CASE name = "add"  -> Modulo(x + y)
      [] name = "sub"  -> Modulo(x - y)
      [] name = "mul"  -> Modulo(x * y)
      [] name = "eq"   -> Truth(x = y)
      [] name = "ne"   -> Truth(x # y)
      [] name = "lt_u" -> Truth(x < y)
      [] name = "ge_u" -> Truth(x >= y)

Local(m, l) == IF l \in DOMAIN m.locals THEN m.locals[l] ELSE 0

Execute(m, op) ==
    LET n == Len(m.stack)
        Popped(k) == SubSeq(m.stack, 1, n - k)
        Assigned == [l \in DOMAIN m.locals \cup {op[2]} |->
                        IF l = op[2] THEN m.stack[n] ELSE m.locals[l]]
    IN  IF ~m.defined \/ n < Needs(op)
        THEN [m EXCEPT !.defined = FALSE]
        ELSE CASE op[1] = "const"     -> [m EXCEPT !.stack = Append(@, Modulo(op[2]))]
               [] op[1] = "local.get" -> [m EXCEPT !.stack = Append(@, Local(m, op[2]))]
               [] op[1] = "local.set" -> [m EXCEPT !.locals = Assigned, !.stack = Popped(1)]
               [] op[1] = "local.tee" -> [m EXCEPT !.locals = Assigned]
               [] op[1] = "drop"      -> [m EXCEPT !.stack = Popped(1)]
               [] op[1] = "eqz"       -> [m EXCEPT !.stack = Append(Popped(1), Truth(m.stack[n] = 0))]
               [] OTHER -> [m EXCEPT !.stack = Append(Popped(2), Compute(op[1], m.stack[n - 1], m.stack[n]))]

Started(arguments) == [stack |-> <<>>, locals |-> arguments, defined |-> TRUE]

Run(body, arguments) ==
    LET after[k \in 0..Len(body)] == IF k = 0 THEN Started(arguments)
                                     ELSE Execute(after[k - 1], body[k])
    IN  after[Len(body)]

\* The locals that hold a parameter or that one of the first n operators assigns.
AssignedLocals(body, params, n) ==
    0..(params - 1)
    \cup {body[j][2] : j \in {j \in 1..n : body[j][1] \in {"local.set", "local.tee"}}}

\* No operator reads the initial zero of a local.
ReadsAssigned(body, params) ==
    \A k \in DOMAIN body :
        body[k][1] = "local.get" => body[k][2] \in AssignedLocals(body, params, k - 1)
=============================================================================
