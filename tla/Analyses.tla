------------------------------ MODULE Analyses ------------------------------
(***************************************************************************)
(* The analysis requests an agent makes, each with what it is made on: an  *)
(* open program, a large function, two binaries, an obfuscated function, a *)
(* WebAssembly module, the host itself.  An input is opened, requests are  *)
(* answered from it one after the other, and it is closed.  The answers of *)
(* the worker are the ones it computes; that repeating a request may be    *)
(* answered from a cache is the subject of WorkerDispatch.                 *)
(***************************************************************************)
EXTENDS Workflows, Recovery, LargeFunction, Detectors, Wasm, Requests

CONSTANTS
    Programs,        \* programs, as AnalysisIndex describes them
    Queries,         \* <<predicates, limit>> of index.query
    WorkflowRequests, \* requests of the workflow engine
    DeepBudgets,     \* budgets of the deep, data-flow and value requests
    MaxResumes,      \* bound: how often a deep walk is resumed
    Graphs,          \* control-flow graphs of large functions
    Thresholds,      \* when a function counts as large
    RegionOptions,   \* options of the partition
    RegionLimits,    \* <<max_regions, max_iterations>>
    Outcomes,        \* how the analysis of a region can end
    Observations,    \* member observations of several functions
    Slots,           \* the entries of a candidate vtable
    Images,          \* what the scans read: segments and rule packs
    Immediates,      \* the immediates of a function, as bytes
    WasmModules      \* sequences of payloads

(***************************************************************************)
(* Requests on a program.  The index is built when the first one needs it. *)
(***************************************************************************)
OpenProgram ==
    \E p \in Programs : Open([kind |-> "program", program |-> p, index |-> build_index(p)])

index_query(q) ==
    /\ input.kind = "program"
    /\ Reply([tool |-> "query", request |-> q, hits |-> query(input.index, q[1], q[2])])

workflow_run(req) ==
    /\ input.kind = "program"
    /\ Reply([tool |-> "workflow", request |-> req, result |-> run(input.index, req)])

\* calls: the smallest max_calls of the walk so far.
DeepAnswer(root, budgets, start, before, calls, resumes) ==
    LET result == deep_function(input.program, input.index, root, budgets, start,
                                DOMAIN input.program)
    IN  [tool |-> "deep", root |-> root, result |-> result,
         calls |-> Min({calls, budgets.max_calls}),
         decompiled |-> before \o result.decompiled, resumes |-> resumes]

deep_start(root, budgets) ==
    /\ input.kind = "program"
    /\ Reply(DeepAnswer(root, budgets, Fresh(root), <<>>, budgets.max_calls, 0))

\* The agent passes the token of the last answer back, with other budgets.
deep_resume(budgets) ==
    /\ answer.tool = "deep"
    /\ answer.result.ok
    /\ answer.resumes < MaxResumes
    /\ \E token \in answer.result.resume :
          answer' = DeepAnswer(token.root, budgets, Restore(token), answer.decompiled,
                               answer.calls, answer.resumes + 1)
    /\ UNCHANGED <<input, storeVars>>

deep_dataflow(target, direction, budgets) ==
    /\ input.kind = "program"
    /\ Reply([tool |-> "dataflow", target |-> target, direction |-> direction,
              budgets |-> budgets,
              result |-> trace_dataflow(input.program, input.index, target, direction, budgets)])

value_propagate(target, budgets) ==
    /\ input.kind = "program"
    /\ Reply([tool |-> "values", target |-> target, budgets |-> budgets,
              result |-> value_analysis(input.program, input.index, target, budgets)])

(***************************************************************************)
(* Large functions.                                                        *)
(***************************************************************************)
OpenGraph == \E g \in Graphs : Open([kind |-> "graph", graph |-> g])

analyze_hierarchical(t, opts, limits, worker_exe, outcome) ==
    /\ input.kind = "graph"
    /\ Reply([tool |-> "hierarchical", opts |-> opts, limits |-> limits,
              result |-> tool_analyze_hierarchical(input.graph, t, opts, limits[1], limits[2],
                             worker_exe, [r \in DOMAIN input.graph.nodes |-> outcome])])

analyze_region(opts, id, tried, outcome) ==
    /\ input.kind = "graph"
    /\ Reply([tool |-> "region",
              result |-> tool_analyze_region(input.graph, opts, id, tried, outcome)])

(***************************************************************************)
(* Recovery and scans.                                                     *)
(***************************************************************************)
OpenObservations ==
    \/ \E o \in Observations : Open([kind |-> "observations", functions |-> o])
    \/ \E s \in Slots : Open([kind |-> "slots", slots |-> s])

types_propose(limit) ==
    /\ input.kind = "observations"
    /\ Reply([tool |-> "structure", limit |-> limit,
              result |-> recover_structure(input.functions, limit)])

types_vtable(max) ==
    /\ input.kind = "slots"
    /\ Reply([tool |-> "vtable", result |-> type_vtable_scan(input.slots, max)])

OpenImage ==
    \/ \E i \in Images : Open([kind |-> "image", image |-> i])
    \/ \E m \in Immediates : Open([kind |-> "immediates", immediates |-> m])

\* Rule packs are loaded for every scan; a bad pack fails the request.
intel_crypto(max) ==
    /\ input.kind = "image"
    /\ LET i == input.image
           set == load_effective(i.packs, i.builtin)
       IN  Reply([tool |-> "crypto", max |-> max, ok |-> set.ok,
                  result |-> IF set.ok
                             THEN crypto_scan(i.ends, i.ends, i.segments, set, max, i.opts)
                             ELSE [findings |-> <<>>, truncated |-> FALSE]])

intel_strings(max) ==
    /\ input.kind = "immediates"
    /\ Reply([tool |-> "strings", max |-> max, result |-> recover_strings(input.immediates, max)])

\* hash: which immediates are the hash of which imported name.
intel_api_hashes(hash, max) ==
    /\ input.kind = "program"
    /\ Reply([tool |-> "api_hashes",
              result |-> resolve_api_hashes(input.index, [f \in DOMAIN input.index |-> 64],
                                            build_corpus(DOMAIN hash, hash), 2 * Half, max)])

(***************************************************************************)
(* WebAssembly modules.                                                    *)
(***************************************************************************)
WasmBudget == [max_types |-> 3, max_functions |-> 3, max_elements |-> 2]

OpenWasm ==
    \E w \in WasmModules : Open([kind |-> "wasm", model |-> parse_with_budget(w, WasmBudget)])

wasm_action(action, index) ==
    /\ input.kind = "wasm"
    /\ Reply([tool |-> "wasm", action |-> action, index |-> index,
              result |-> IF input.model.ok THEN tool_wasm(input.model, <<64, 128>>, action, index)
                         ELSE [ok |-> FALSE]])

OpenInput ==
    /\ input = Nothing
    /\ OpenProgram \/ OpenGraph \/ OpenObservations \/ OpenImage \/ OpenWasm

ProgramRequest ==
    \/ \E q \in Queries : index_query(q)
    \/ \E req \in WorkflowRequests : workflow_run(req)
    \/ \E b \in DeepBudgets :
          \/ deep_start(10, b)
          \/ deep_resume(b)
          \/ value_propagate(10, b)
          \/ \E d \in {"forward", "backward", "both"} : deep_dataflow(20, d, b)
    \/ intel_api_hashes((1 :> 7) @@ (2 :> 0), 50)

LargeFunctionRequest ==
    \/ \E t \in Thresholds, o \in RegionOptions, l \in RegionLimits, x \in Outcomes :
          \E worker_exe \in BOOLEAN : analyze_hierarchical(t, o, l, worker_exe, x)
    \/ \E o \in RegionOptions, tried \in BOOLEAN, x \in Outcomes : analyze_region(o, 1, tried, x)

EvidenceRequest ==
    \/ \E limit \in {1, 64} : types_propose(limit)
    \/ types_vtable(32)
    \/ \E max \in {1, 50} : intel_crypto(max) \/ intel_strings(max)

WasmRequest ==
    \/ \E action \in {"info", "functions"} : wasm_action(action, 0)
    \/ \E action \in {"cfg", "pseudocode", "indirect_targets"}, k \in 0..1 : wasm_action(action, k)

Next ==
    \/ RequestNext
    \/ OpenInput
    \/ ProgramRequest
    \/ LargeFunctionRequest
    \/ EvidenceRequest
    \/ WasmRequest

Spec == Init /\ [][Next]_vars
=============================================================================
