---------------------------- MODULE MCAnalyses ----------------------------
(***************************************************************************)
(* The instance of Analyses that TLC checks.                               *)
(***************************************************************************)
EXTENDS AnalysisProperties

UpTo(S, n) == UNION {[1..k -> S] : k \in 0..n}

(***************************************************************************)
(* Programs: three functions at 10, 20 and 30.                             *)
(***************************************************************************)
Bodies == {
    <<>>,
    << <<"call", 20, <<7>> >>, <<"call", 30, <<0, 8>> >> >>,
    << <<"call", 30, <<8>> >>, <<"string", 1>>, <<"undecodable">>, <<"string", 2>> >>,
    << <<"call", 10, <<>> >>, <<"const", 65535>>, <<"const", 65536>>, <<"const", 65543>> >>,
    << <<"icall", 0, <<9>> >>, <<"call", 20, <<>> >>, <<"ijump", 0>> >>,
    << <<"call", 99, <<7>> >> >> }

Names == {<<"user", "user", "user">>, <<"user", "noise", "user">>, <<"user", "user", "thunk">>}

MCPrograms ==
    {(10 :> [name |-> n[1], body |-> b[1]]) @@ (20 :> [name |-> n[2], body |-> b[2]])
        @@ (30 :> [name |-> n[3], body |-> b[3]]) : n \in Names, b \in [1..3 -> Bodies]}

Const(v) == [kind |-> "constant", arg |-> v]
Quiet == [kind |-> "not", inner |-> [kind |-> "name", arg |-> "noise"]]
FromRoot(n) == [kind |-> "reachable_from", root |-> 10, levels |-> n]

MCQueries == {
    << <<FromRoot(1)>>, 50>>, << <<FromRoot(2), Quiet>>, 50>>, << <<FromRoot(2)>>, 1>>,
    << <<[kind |-> "callee_matches", inner |-> Const(65536)], Quiet>>, 50>>,
    << <<[kind |-> "caller_matches", inner |-> Quiet]>>, 50>>,
    << <<[kind |-> "any", list |-> <<Const(65535), Const(65536), [kind |-> "import", arg |-> 30]>>]>>, 50>>,
    << <<[kind |-> "string", arg |-> {1}], [kind |-> "not", inner |-> FromRoot(3)]>>, 50>>,
    << <<[kind |-> "string", arg |-> {2}]>>, 50>>,
    << <<[kind |-> "indirect_calls", arg |-> 1]>>, 50>> }

Budget(d, n, noise) == [depth |-> d, max_functions |-> n, include_noise |-> noise]

MCWorkflowRequests ==
    LET On(name, b) == [workflow |-> name, ea |-> 10, budgets |-> b]
    IN  {On("call_neighborhood", Budget(d, n, noise)) :
            d \in 1..2, n \in {2, 50}, noise \in BOOLEAN}
        \cup {On("subsystem_context", Budget(d, n, FALSE)) @@ [roots |-> <<20, 10>>] :
            d \in 1..2, n \in {1, 2, 50}}
        \cup {On("trace_call_path", Budget(d, 50, FALSE)) @@ [to |-> t] : d \in 1..3, t \in {10, 30}}
        \cup {On("import_usage", Budget(1, n, FALSE)) @@ [name |-> 30] : n \in {1, 50}}
        \cup {On("reference_context", Budget(1, n, FALSE)) @@ [xrefs |-> <<25, 5, 10, 20>>] : n \in {1, 50}}
        \cup {On("reference_context", Budget(1, 50, FALSE)) @@
                [xrefs |-> [i \in 1..101 |-> IF i <= 100 THEN 25 ELSE 30]]}
        \cup {On("function_context", Budget(1, 1, FALSE))}

Deep(d, n, calls, deadline, bad) ==
    [depth |-> d, max_functions |-> n, max_calls |-> calls, max_iterations |-> 2,
     deadline |-> deadline, undecompilable |-> bad]

MCDeepBudgets ==
    {Deep(1, 9, 9, 9, {}), Deep(3, 2, 9, 9, {}), Deep(8, 9, 9, 9, {}), Deep(8, 9, 9, 1, {}),
     Deep(2, 9, 1, 9, {}), Deep(8, 9, 9, 9, {30})}

(***************************************************************************)
(* Large functions: four blocks with at most two successors each.          *)
(***************************************************************************)
Successors == {<<>>, <<1>>, <<2>>, <<3>>, <<4>>, <<2, 3>>, <<3, 4>>, <<1, 3>>}

MCGraphs ==
    {[nodes |-> <<1, 2, 3, 4>>, indirect |-> {2}, bytes |-> IF s[1] = <<>> THEN 9 ELSE 1,
      edges |-> FlattenSeq([i \in 1..3 |-> [k \in DOMAIN s[i] |-> <<i, s[i][k]>>]])] :
        s \in [1..3 -> Successors]}

MCThresholds ==
    {[pathological_blocks |-> 9, pathological_edges |-> 6, pathological_bytes |-> 99,
      pathological_sccs |-> 9, large_blocks |-> 9, large_edges |-> 2, large_bytes |-> 9]}

MCRegionOptions == {[min_dispatcher_scc |-> 3, max_chunk_blocks |-> n] : n \in 1..2}

MCRegionLimits == {<<4, 8>>, <<2, 8>>, <<4, 1>>}

(***************************************************************************)
(* Binaries and blocks.                                                    *)
(***************************************************************************)
Block(m, c, e) == [mnemonics |-> m, constants |-> c, out |-> e, in |-> 1]

MCBlockLists == UpTo({Block(1, 1, 1), Block(1, 2, 1), Block(1, 2, 2), Block(2, 1, 1)}, 3)

Fun(ea, name, size, imports, constants, blocks) ==
    [ea |-> ea, name |-> name, size |-> size, imports |-> imports, strings |-> {},
     constants |-> constants, callees |-> 1, callers |-> 2, blocks |-> blocks]

FunctionsAt(ea) ==
    {Fun(ea, n, s, i, c, <<Block(1, 1, 1)>>) :
        n \in {1, 101}, s \in {8, 24}, i \in {{}, {1}, {1, 2}}, c \in {{}, {5}}}

MCBinaries ==
    {<<f, g>> : f \in {f \in FunctionsAt(10) : f.name = 1},
                g \in {g \in FunctionsAt(20) : g.size = 24 /\ g.constants = {5}}}

(***************************************************************************)
(* Evidence.                                                               *)
(***************************************************************************)
Member(width_, write) == [base |-> 1, offset |-> 0, width |-> width_, write |-> write]

MCObservations ==
    UpTo(UpTo({Member(4, TRUE), Member(2, FALSE), Member(8, FALSE), Member(0, FALSE)}, 2), 2)
    \cup {<<f, g, <<Member(4, FALSE)>> >> : f, g \in UpTo({Member(4, TRUE), Member(2, FALSE)}, 2)}

MCSlots == UpTo({"code", "data"}, 3)

Rule(id, bytes, rarity) ==
    [id |-> id, kind |-> "constant", valid |-> TRUE, bytes |-> bytes, rarity |-> rarity]

Pack(name, enabled, rules) ==
    [name |-> name, well_formed |-> TRUE, enabled |-> enabled, rules |-> rules]

MCImages ==
    {[ends |-> (0 :> 2) @@ (3 :> 9), builtin |-> <<Rule("built_in", <<1, 1>>, 9)>>,
      packs |-> p, segments |-> <<[start |-> 0, bytes |-> b, perms |-> {"r"}]>>,
      opts |-> [max_segment |-> 9, chunk |-> 3, unreadable |-> u]] :
        p \in {<<>>, <<Pack("on", TRUE, <<Rule("x", <<1>>, 5), Rule("y", <<1, 2>>, 9)>>)>>,
               <<Pack("off", FALSE, <<Rule("x", <<1>>, 5)>>)>>,
               <<Pack("bad", TRUE, <<Rule("x", <<1>>, 5), Rule("x", <<2>>, 5)>>)>>},
        b \in [1..5 -> 1..2], u \in {{}, {3}}}

MCImmediates == {<<b, c>> : b, c \in [1..4 -> 0..1]} \cup {<<b, <<1, 1, 1, 1>>, <<0, 0>> >> : b \in [1..4 -> 0..1]}

(***************************************************************************)
(* Code.  Four instructions of two bytes from address 100.                 *)
(***************************************************************************)
Instruction(op, args, words, chars) == [op |-> op, args |-> args, words |-> words, chars |-> chars]

Kinds == {
    Instruction("cmp", << <<"Reg", "eax">>, <<"Reg", "eax">> >>, 2, 4),
    Instruction("jz", << <<"Near", "next">> >>, 1, 4),
    Instruction("mov", << <<"Displ", "slot">>, <<"Reg", "eax">> >>, 2, 4),
    Instruction("mov", << <<"Reg", "eax">>, <<"Displ", "slot">> >>, 2, 4),
    Instruction("jmp", << <<"Reg", "eax">> >>, 1, 3)}

MCObfuscated ==
    {[start |-> 100, end |-> 108, nodes |-> n, edges |-> 12, ctree |-> 1,
      code |-> [i \in 1..4 |-> c[i] @@ [ea |-> 98 + 2 * i, len |-> 2]]] :
        n \in {0, 6}, c \in [1..4 -> Kinds]}

MCReferences == {<<102, "jump">>, <<104, "flow">>, <<106, "data">>}

(***************************************************************************)
(* WebAssembly.                                                            *)
(***************************************************************************)
Operators == {<<"block">>, <<"loop">>, <<"br", 0>>, <<"br_if", 1>>, <<"br_table", <<0, 1>> >>, <<"end">>}

Import == [section |-> "import", items |-> <<"func", "memory">>]
Element(mode_, offset, funcs) == [mode |-> mode_, table |-> 0, offset |-> offset, funcs |-> funcs]

MCWasmModules ==
    {<<Import, [section |-> "function", items |-> <<1>>],
       [section |-> "code", items |-> <<[locals |-> 0, code |-> c \o << <<"end">>, <<"end">> >>]>>]>> :
        c \in UpTo(Operators, 4) \cup UpTo({<<"bad">>, <<"block">>, <<"end">>}, 3)}
    \cup
    {<<[section |-> "type", items |-> y], Import, [section |-> "function", items |-> t],
       [section |-> "element", items |-> e],
       [section |-> "code", items |-> <<[locals |-> n, code |->
            << <<"const", 1>>, <<"call", 1>>, <<"call_indirect", 1, 0>>, <<"if">>, <<"else">>, <<"end">>, <<"end">> >>]>>],
       [section |-> "name", items |-> <<<<1, "main">>, <<9, "lost">>>>]>> :
        y \in {<<>>, <<0, 1>>, <<0, -1>>, <<0, 0, 1, 1>>}, t \in {<<>>, <<1>>, <<1, 2>>, <<1, 1, 1, 1>>},
        e \in {<<>>, <<Element("active", 0, <<1, 2>>)>>, <<Element("passive", 0, <<2>>)>>},
        n \in {0, 2, 3, 4, 1}}

Straight == {<<"const", 3>>, <<"const", 2>>, <<"local.get", 1>>, <<"local.get", 0>>, <<"local.set", 0>>, <<"local.tee", 1>>,
             <<"add">>, <<"mul">>, <<"sub">>, <<"eq">>}

MCWasmBodies == {<<b, 1>> : b \in UpTo(Straight, 4)}

(***************************************************************************)
(* Hosts: a and b below the root, c below a.                               *)
(***************************************************************************)
Versions == {[x \in D |-> v[x]] : D \in SUBSET {"a", "b", "c"}, v \in [{"a", "b", "c"} -> {0, 90, 92, 94}]}

NoSource == [children |-> ("root" :> <<"a", "b">>) @@ ("a" :> <<"c">>),
             parent |-> ("a" :> "root") @@ ("b" :> "root") @@ ("c" :> "a"),
             explicit |-> {}, env |-> {}, config |-> {}, profile |-> "none", native |-> <<>>,
             common |-> <<>>, hints |-> <<>>, cache |-> {}]

MCHosts ==
    {[version |-> v] @@ s : v \in Versions,
        s \in {NoSource, [NoSource EXCEPT !.env = {"c"}],
               [NoSource EXCEPT !.explicit = {"b"}, !.common = <<"a">>],
               [NoSource EXCEPT !.native = << <<"b", 94>> >>, !.config = {"c"}],
               [NoSource EXCEPT !.common = <<"b">>, !.hints = <<"c">>]}}

MCRequirements ==
    {[latest |-> TRUE, constraints |-> {}], [latest |-> FALSE, constraints |-> {<<"=", 92>>}],
     [latest |-> FALSE, constraints |-> {<<">=", 90>>, <<"<", 94>>}],
     [latest |-> FALSE, constraints |-> {<<">", 94>>}]}
=============================================================================
