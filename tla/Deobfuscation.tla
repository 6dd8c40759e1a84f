--------------------------- MODULE Deobfuscation ---------------------------
(***************************************************************************)
(* The deobfuscation passes (crates/rmcp-worker/src/deob.rs) and the patch *)
(* plans (transforms.rs).                                                  *)
(*                                                                         *)
(* An instruction is [ea, op, args, len, words, chars]: its operands are   *)
(* pairs <<type, text>>, and words and chars are the size of its           *)
(* disassembly text.  A function under analysis is [start, end, code,      *)
(* nodes, edges, ctree]: ctree counts the pseudocode lines that compare    *)
(* something with itself, nodes is 0 when the graph is not available.      *)
(***************************************************************************)
EXTENDS Lists

\* The idalib backend reports the type of each operand in place of its text.
operand_text(i) == [k \in DOMAIN i.args |-> i.args[k][1]]

is_reg(operands) == operands \in {<<"eax">>, <<"ebx">>}

parse_imm(text) == text \in {"1", "2"}

SelfCompare(i) ==
    /\ i.op \in {"cmp", "test"}
    /\ Len(i.args) = 2
    /\ operand_text(i)[1] = operand_text(i)[2]
    /\ operand_text(i)[1] # "?"

CondJump(code, k) == k \in DOMAIN code /\ code[k].op \in {"jz", "jnz", "je", "jne"}

OpaqueAt(code) ==
    Ascending({k \in DOMAIN code : SelfCompare(code[k]) /\ CondJump(code, k + 1)})

Memory == {"Displ", "Phrase"}

\* A store or a load followed by a load; which slot or register is not compared.
pair_is_roundtrip(code, k) ==
    LET Is(i, dst, src) == /\ i.op = "mov"
                           /\ Len(i.args) = 2
                           /\ operand_text(i)[1] \in dst
                           /\ operand_text(i)[2] \in src
    IN  /\ k + 1 \in DOMAIN code
        /\ Is(code[k], Memory, {"Reg"}) \/ Is(code[k], {"Reg"}, Memory)
        /\ Is(code[k + 1], {"Reg"}, Memory)

\* The moves among the six instructions before k.
LookBack(code, k) == {i \in (IF k > 6 THEN k - 6 ELSE 1)..(k - 1) : code[i].op = "mov"}

(***************************************************************************)
(* Passes.  Confidence is in hundredths; a pass triggers from 60.          *)
(***************************************************************************)
flattening_pass(f) ==
    IF f.nodes = 0 THEN 0
    ELSE IF f.nodes >= 12 /\ 10 * f.edges >= 16 * f.nodes
    THEN Min({(100 * f.edges) \div (3 * f.nodes), 90})
    ELSE IF f.nodes >= 6 /\ f.edges >= 2 * f.nodes THEN 60 ELSE 20

opaque_branch_pass(f) ==
    LET inText == Min({f.ctree, 16})
        inCode == Len(OpaqueAt(f.code))
        n == IF inText = 16 THEN 16 + Min({inCode, 1}) ELSE Min({inText + inCode, 16})
    IN  CASE n = 0 -> 5 [] n = 1 -> 40 [] n = 2 -> 60 [] OTHER -> Min({60 + 10 * Min({n, 4}), 95})

indirect_pass(f) ==
    LET n == Len(Take(SelectSeq(f.code, LAMBDA i : i.op \in {"jmp", "call"}
                                                   /\ is_reg(operand_text(i))), 16))
    IN  CASE n = 0 -> 5 [] n = 1 -> 35 [] n \in 2..4 -> 55 [] OTHER -> 75

junk_pass(f) ==
    LET n == Min({Cardinality({k \in DOMAIN f.code : pair_is_roundtrip(f.code, k)}), 16})
    IN  CASE n = 0 -> 5 [] n \in 1..2 -> 30 [] n \in 3..6 -> 55 [] OTHER -> 80

tail_jump_pass(f) ==
    LET tails == {k \in DOMAIN f.code :
                     /\ f.code[k].op = "jmp"
                     /\ is_reg(operand_text(f.code[k]))
                     /\ \E i \in LookBack(f.code, k) :
                           Take(operand_text(f.code[i]), 1) = operand_text(f.code[k])}
        n == Min({Cardinality(tails), 8})
    IN  CASE n = 0 -> 5 [] n = 1 -> 50 [] n \in 2..3 -> 70 [] OTHER -> 85

deobfuscate(f, max_passes) ==
    LET passes == << <<"flatten_detect", flattening_pass(f)>>,
                     <<"opaque_branch", opaque_branch_pass(f)>>,
                     <<"indirect_transfer", indirect_pass(f)>>,
                     <<"junk_code", junk_pass(f)>>,
                     <<"tail_jump", tail_jump_pass(f)>> >>
        run == Take(passes, Clamp(1, max_passes, 16))
    IN  [findings |-> run, triggered |-> {p[1] : p \in {q \in Range(run) : q[2] >= 60}}]

(***************************************************************************)
(* Plans.  An operation overwrites len bytes from ea with NOPs.  Lengths   *)
(* come from the text: one byte per word, and for the jump of an opaque    *)
(* branch one byte per character, at most sixteen together.                *)
(***************************************************************************)
MAX_SITES == 16

Site(ea, len) == [ea |-> ea, len |-> Min({len, 16})]

opaque_sites(code) ==
    LET at == OpaqueAt(code)
    IN  [n \in DOMAIN at |-> Site(code[at[n]].ea, code[at[n]].words + code[at[n] + 1].chars)]

\* Mutant of junk_sites: a pair that was taken is not stepped over.
junk_sitesEach(code) ==
    LET at == Ascending({k \in DOMAIN code : pair_is_roundtrip(code, k)})
    IN  [n \in DOMAIN at |-> Site(code[at[n]].ea, code[at[n]].words + code[at[n] + 1].words)]

\* A pair that was taken is stepped over, so pairs do not overlap.
junk_sites(code) ==
    LET taken[k \in 0..Len(code)] == k > 0 /\ pair_is_roundtrip(code, k) /\ ~taken[k - 1]
        at == Ascending({k \in DOMAIN code : taken[k]})
    IN  [n \in DOMAIN at |-> Site(code[at[n]].ea, code[at[n]].words + code[at[n] + 1].words)]

indirect_sites(code) ==
    LET Constants(k) == {operand_text(code[i])[2] : i \in {i \in LookBack(code, k) :
                            /\ Len(code[i].args) = 2
                            /\ <<operand_text(code[i])[1]>> = operand_text(code[k])
                            /\ parse_imm(operand_text(code[i])[2])}}
        at == Ascending({k \in DOMAIN code : /\ code[k].op = "jmp"
                                             /\ is_reg(operand_text(code[k]))
                                             /\ Cardinality(Constants(k)) = 1})
    IN  [n \in DOMAIN at |-> Site(code[at[n]].ea, code[at[n]].words)]

propose(f, kind) ==
    LET sites == CASE kind = "T1" -> opaque_sites(f.code)
                   [] kind = "T2" -> junk_sites(f.code)
                   [] kind = "T3" -> indirect_sites(f.code)
                   [] kind = "T4" -> <<>>
    IN  [kind |-> kind, target |-> f.start, operations |-> Take(sites, MAX_SITES)]

Covered(op) == op.ea..(op.ea + op.len - 1)

\* A plan is checked against the database as it is now, not as it was proposed.
\* xrefs: pairs <<address, kind>> of references that arrive somewhere.
Rejections(functions, xrefs, readable, plan) ==
    LET f == CHOOSE f \in functions : f.start <= plan.target /\ plan.target < f.end
        Outside(op) == op.ea < f.start \/ op.ea + op.len > f.end
        Referenced(op) == \E x \in xrefs : x[1] \in Covered(op) /\ x[2] # "flow"
    IN  {k \in DOMAIN plan.operations :
            LET op == plan.operations[k]
            IN  Outside(op) \/ Referenced(op) \/ op.ea \notin readable}

validate(functions, xrefs, readable, plan) ==
    /\ \E f \in functions : f.start <= plan.target /\ plan.target < f.end
    /\ Rejections(functions, xrefs, readable, plan) = {}
=============================================================================
