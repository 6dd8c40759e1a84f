------------------------------ MODULE Requests ------------------------------
(***************************************************************************)
(* The analysis requests whose answers are computed without a walk: an     *)
(* input is opened (two binaries, the blocks of two functions, an          *)
(* obfuscated function, a WebAssembly body, the host itself, the stored    *)
(* results), requests are answered from it one after the other, and it is  *)
(* closed.  Analyses adds the requests on programs, large functions,       *)
(* evidence and WebAssembly modules.                                       *)
(***************************************************************************)
EXTENDS CodeMatching, Deobfuscation, WasmValues, Discovery, ResultStore

CONSTANTS
    BlockLists,      \* the blocks of a function, for the block diff
    DiffThresholds,  \* similarities asked of a pair of blocks, in tenths
    Binaries,        \* sequences of functions, for the signatures
    Obfuscated,      \* functions under deobfuscation
    References,      \* references that may appear while a plan is pending
    WasmBodies,      \* straight-line bodies, with their number of parameters
    Hosts,           \* hosts, as Discovery describes them
    Requirements     \* version requirements

\* Fingerprints are hashes and addresses are distinct; a function is disassembled from
\* its start on.
ASSUME MatchingAssumption ==
    /\ BlockLists \subseteq Seq(BlockFp)
    /\ DiffThresholds \subseteq Nat
    /\ Binaries \subseteq Seq(FunctionSig)
    /\ \A binary \in Binaries : \A i \in DOMAIN binary :
          /\ \A S \in {binary[i].imports, binary[i].strings, binary[i].constants} : IsFiniteSet(S)
          /\ \A j \in DOMAIN binary : binary[i].ea = binary[j].ea => i = j

ASSUME ObfuscatedAssumption ==
    \A f \in Obfuscated :
        /\ Len(f.code) \in Nat /\ DOMAIN f.code = 1..Len(f.code)
        /\ \A j, k \in DOMAIN f.code : f.code[j].ea = f.code[k].ea => j = k

ASSUME WasmAssumption == WasmBodies \subseteq Seq(StraightLine) \X Nat

ASSUME HostAssumption == \A host \in Hosts : HostType(host)

VARIABLES
    input,    \* what is open: a record with a kind
    answer    \* the last answer: a record with the tool that gave it

vars == <<input, answer, storeVars>>

Nothing == [kind |-> "nothing"]
NoAnswer == [tool |-> "none"]

Init ==
    /\ input = Nothing
    /\ answer = NoAnswer
    /\ StoreInit

Open(i) ==
    /\ input' = i
    /\ UNCHANGED <<answer, storeVars>>

\* An answered request leaves the input alone, but for discovery's cache.
Reply(a) ==
    /\ answer = NoAnswer
    /\ answer' = a
    /\ UNCHANGED <<input, storeVars>>

Read ==
    /\ answer # NoAnswer
    /\ answer' = NoAnswer
    /\ UNCHANGED <<input, storeVars>>

Close ==
    /\ input.kind \notin {"nothing", "results"}
    /\ answer = NoAnswer
    /\ input' = Nothing
    /\ UNCHANGED <<answer, storeVars>>

(***************************************************************************)
(* Signatures and diffs.                                                   *)
(***************************************************************************)
OpenBinaries ==
    \E a, b \in Binaries : Open([kind |-> "binaries", a |-> a, b |-> b])

OpenBlocks ==
    \E a, b \in BlockLists : Open([kind |-> "blocks", a |-> a, b |-> b])

sig_identify ==
    /\ input.kind = "binaries"
    /\ \E k \in DOMAIN input.a :
          Reply([tool |-> "identify", probe |-> input.a[k],
                 candidates |-> identify_function(input.a[k], input.b, 10)])

sig_map ==
    /\ input.kind = "binaries"
    /\ Reply([tool |-> "map", result |-> sig_map_from_sigs(input.a, input.b, 100)])

sig_diff_binaries ==
    /\ input.kind = "binaries"
    /\ Reply([tool |-> "diff_binary", result |->
                 diff_binary(fingerprints(input.a, 64).functions,
                             fingerprints(input.b, 64).functions, 8, 256)])

sig_diff(threshold) ==
    /\ input.kind = "blocks"
    /\ Reply([tool |-> "diff", threshold |-> Clamp(5, threshold, 10),
              result |-> diff_blocks(input.a, input.b, Clamp(5, threshold, 10), 4 * 256)])

(***************************************************************************)
(* Deobfuscation.  While the agent looks at a plan, the analysis of the    *)
(* database goes on and references appear.                                 *)
(***************************************************************************)
OpenObfuscated ==
    \E f \in Obfuscated : Open([kind |-> "obfuscated", function |-> f, references |-> {}])

deob_run(max_passes) ==
    /\ input.kind = "obfuscated"
    /\ Reply([tool |-> "deobfuscate", result |-> deobfuscate(input.function, max_passes)])

deob_propose(kind) ==
    /\ input.kind = "obfuscated"
    /\ Reply([tool |-> "plan", plan |-> propose(input.function, kind)])

AddReference(x) ==
    /\ input.kind = "obfuscated"
    /\ input' = [input EXCEPT !.references = @ \cup {x}]
    /\ UNCHANGED <<answer, storeVars>>

deob_validate ==
    /\ answer.tool = "plan"
    /\ answer' = [tool |-> "validated", plan |-> answer.plan,
                  ok |-> validate({input.function}, input.references,
                                  input.function.start..(input.function.end - 1), answer.plan)]
    /\ UNCHANGED <<input, storeVars>>

(***************************************************************************)
(* WebAssembly.                                                            *)
(***************************************************************************)
OpenBody ==
    \E b \in WasmBodies : Open([kind |-> "body", body |-> b[1], params |-> b[2]])

wasm_values ==
    /\ input.kind = "body"
    /\ Len(input.body) <= MaxOperators
    /\ Reply([tool |-> "ssa", result |-> analyze_values(input.body, input.params)])

(***************************************************************************)
(* Discovery.  Installations come and go, and the cached scan ages,        *)
(* between two requests.                                                   *)
(***************************************************************************)
OpenHost == \E h \in Hosts : Open([kind |-> "host", host |-> h])

resolve_ida(req) ==
    /\ input.kind = "host"
    /\ answer = NoAnswer
    /\ answer' = [tool |-> "resolve", request |-> req, result |-> resolve_with(input.host, req)]
    /\ input' = [input EXCEPT !.host.cache =
                    IF ScansDrives(input.host) THEN CacheAfter(input.host) ELSE @]
    /\ UNCHANGED storeVars

Uninstall ==
    /\ input.kind = "host"
    /\ answer = NoAnswer
    /\ \E d \in DOMAIN input.host.version :
          input' = [input EXCEPT !.host.version = [x \in DOMAIN @ \ {d} |-> @[x]]]
    /\ UNCHANGED <<answer, storeVars>>

ScanAges ==
    /\ input.kind = "host"
    /\ answer = NoAnswer
    /\ \E e \in input.host.cache : e.fresh
    /\ input' = [input EXCEPT !.host.cache = {[e EXCEPT !.fresh = FALSE] : e \in @}]
    /\ UNCHANGED <<answer, storeVars>>

(***************************************************************************)
(* Large answers of any request go through the result store.               *)
(***************************************************************************)
OpenResults == Open([kind |-> "results"])

StoreStep ==
    /\ input.kind = "results"
    /\ StoreNext
    /\ UNCHANGED <<input, answer>>

OpenRequest ==
    /\ input = Nothing
    /\ OpenBinaries \/ OpenBlocks \/ OpenObfuscated \/ OpenBody \/ OpenHost \/ OpenResults

MatchingRequest ==
    \/ sig_identify
    \/ sig_map
    \/ sig_diff_binaries
    \/ \E threshold \in DiffThresholds : sig_diff(threshold)

DeobfuscationRequest ==
    \/ \E n \in {1, 8} : deob_run(n)
    \/ \E kind \in {"T1", "T2", "T3", "T4"} : deob_propose(kind)
    \/ \E x \in References : AddReference(x)
    \/ deob_validate

HostRequest ==
    \/ \E req \in Requirements : resolve_ida(req)
    \/ Uninstall
    \/ ScanAges

RequestNext ==
    \/ OpenRequest
    \/ MatchingRequest
    \/ DeobfuscationRequest
    \/ wasm_values
    \/ HostRequest
    \/ StoreStep
    \/ Read
    \/ Close

RequestSpec == Init /\ [][RequestNext]_vars
=============================================================================
