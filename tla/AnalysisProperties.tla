------------------------- MODULE AnalysisProperties -------------------------
(***************************************************************************)
(* What the answers of Analyses must be, defined from the inputs           *)
(* themselves: call chains of a program, mutual reachability of blocks,    *)
(* the positions of matching ends, an evaluation of a body.  None of these *)
(* references uses the algorithm whose answer it judges.                   *)
(***************************************************************************)
EXTENDS Analyses, RequestProperties

Distinct(s) == Cardinality(ToSet(s)) = Len(s)

\* What is at most n steps from S, and what is any number of steps from it.
RECURSIVE Within(_, _, _)
Within(next, S, n) ==
    IF n = 0 THEN S ELSE Within(next, S \cup UNION {next[x] : x \in S}, n - 1)

Closure(next, S) == Within(next, S, Cardinality(DOMAIN next))

(***************************************************************************)
(* Programs.                                                               *)
(***************************************************************************)
\* An instruction of the part of the function that can be decoded.
Says(p, f, kind, operand) ==
    \E i \in DOMAIN p[f].body : /\ p[f].body[i][1] = kind /\ p[f].body[i][2] = operand
                                /\ \A k \in 1..i : p[f].body[k][1] # "undecodable"

Calls(p) == [f \in DOMAIN p |-> {g \in DOMAIN p : Says(p, f, "call", g)}]
CalledBy(p) == [g \in DOMAIN p |-> {f \in DOMAIN p : Says(p, f, "call", g)}]

RECURSIVE Holds(_, _, _)
Holds(p, pred, f) ==
    CASE pred.kind = "name"     -> p[f].name = pred.arg
      [] pred.kind = "import"   -> pred.arg \in Calls(p)[f] /\ p[pred.arg].name = "thunk"
      [] pred.kind = "string"   -> \E s \in pred.arg : Says(p, f, "string", s)
      [] pred.kind = "constant" -> pred.arg >= 65536 /\ Says(p, f, "const", pred.arg)
      [] pred.kind = "reachable_from" ->
            f \in Within(Calls(p), Calls(p)[pred.root], pred.levels - 1)
      [] pred.kind = "callee_matches" -> \E g \in Calls(p)[f] : Holds(p, pred.inner, g)
      [] pred.kind = "caller_matches" -> \E g \in CalledBy(p)[f] : Holds(p, pred.inner, g)
      [] pred.kind = "any" -> \E i \in DOMAIN pred.list : Holds(p, pred.list[i], f)
      [] pred.kind = "not" -> ~Holds(p, pred.inner, f)

RECURSIVE AsksForIndirectCalls(_)
AsksForIndirectCalls(pred) ==
    \/ pred.kind = "indirect_calls"
    \/ pred.kind \in {"callee_matches", "caller_matches", "not"} /\ AsksForIndirectCalls(pred.inner)
    \/ pred.kind = "any" /\ \E i \in DOMAIN pred.list : AsksForIndirectCalls(pred.list[i])

\* index.query returns functions for which every predicate is true of the
\* program itself, each once, and leaves one out only when the limit is reached:
\* the index, the bounded search behind reachable_from and the evaluation of
\* nested predicates together mean what they say.  A predicate speaks of what
\* can be decoded of a function, and of constants from 0x10000 up
\* (analysis_index.rs:36).  Nothing is claimed of HasIndirectCalls:
\* analysis_index.rs:80 says "at least this many indirect calls", and
\* idalib_backend.rs:1444 counts indirect jumps.
QueryIsLogical ==
    answer.tool = "query" /\ ~AsksForIndirectCalls([kind |-> "any", list |-> answer.request[1]]) =>
        LET p == input.program
            wanted == {f \in DOMAIN p : \A i \in DOMAIN answer.request[1] :
                                           Holds(p, answer.request[1][i], f)}
        IN  /\ Distinct(answer.hits)
            /\ ToSet(answer.hits) \subseteq wanted
            /\ Len(answer.hits) = Min({Cardinality(wanted), answer.request[2]})

QuietCalls(p, noise) ==
    [f \in DOMAIN p |-> {g \in Calls(p)[f] : noise \/ p[g].name = "user"}]

NeighborhoodIsComplete(p, req, r) ==
    LET next == QuietCalls(p, req.budgets.include_noise)
        near == Within(next, {req.ea}, req.budgets.depth)
        edges == UNION {{f} \X next[f] : f \in Within(next, {req.ea}, req.budgets.depth - 1)}
    IN  /\ r.functions \subseteq near /\ ToSet(r.edges) \subseteq edges
        /\ ~r.truncated => r.functions = near /\ ToSet(r.edges) = edges

SubsystemIsComplete(p, req, r) ==
    LET near == Within(QuietCalls(p, FALSE), ToSet(req.roots), req.budgets.depth)
    IN  /\ r.functions \subseteq near
        /\ Cardinality(r.functions) < req.budgets.max_functions => r.functions = near

PathIsShortest(p, req, r) ==
    LET Near(n) == Within(Calls(p), {req.ea}, n)
        n == Len(r.path) - 1
    IN  /\ r.found <=> req.to \in Near(req.budgets.depth)
        /\ r.found => /\ r.path[1] = req.ea /\ Last(r.path) = req.to
                      /\ \A i \in 1..n : r.path[i + 1] \in Calls(p)[r.path[i]]
                      /\ n > 0 => req.to \notin Near(n - 1)

\* The functions that contain one of the first hundred references.
ReferencesAreComplete(p, req, r) ==
    ~r.truncated =>
        r.functions = {f \in DOMAIN p : \E k \in DOMAIN req.xrefs :
                          /\ k <= 100 /\ f <= req.xrefs[k]
                          /\ \A g \in DOMAIN p : g <= req.xrefs[k] => g <= f}

\* What a call neighborhood or an import listing that is not flagged truncated
\* leaves out is further than the depth, behind library code or in bytes that do
\* not decode, and trace_call_path finds a shortest chain exactly when there is
\* one within the depth.  Of subsystem_context this is claimed only while it
\* holds fewer functions than max_functions: a walk cut there (workflow.rs:467) is
\* never flagged (workflow.rs:505 asks for more than max_functions), although
\* src/README.md:45 says "truncation is always flagged, never silent"; nor is it
\* when reference_context leaves out what is beyond the hundredth reference
\* (workflow.rs:369), and for that workflow only the first hundred are claimed.
WalksAreComplete ==
    answer.tool = "workflow" =>
        LET p == input.program
            req == answer.request
            r == answer.result
        IN  CASE req.workflow = "call_neighborhood" -> NeighborhoodIsComplete(p, req, r)
              [] req.workflow = "subsystem_context" -> SubsystemIsComplete(p, req, r)
              [] req.workflow = "trace_call_path"   -> PathIsShortest(p, req, r)
              [] req.workflow = "import_usage"      ->
                    ~r.truncated =>
                        r.functions = {f \in DOMAIN p :
                                          req.name \in Calls(p)[f] /\ p[req.name].name = "thunk"}
              [] req.workflow = "reference_context" -> ReferencesAreComplete(p, req, r)
              [] OTHER -> TRUE

\* The call rows of a function that the budget lets the decompiler report.
Rows(p, f, max_calls) ==
    ToSet(Take(SelectSeq(p[f].body, LAMBDA i : i[1] \in {"call", "icall"}), max_calls))

DirectCalls(p, max_calls) ==
    [f \in DOMAIN p |-> {r[2] : r \in {x \in Rows(p, f, max_calls) : x[1] = "call"}} \cap DOMAIN p]

\* A deep walk, over any number of resumptions with other budgets, keeps every
\* function it still owes: what the root reaches by the calls every request let
\* the decompiler report is in the dossiers or reachable from the token's pending
\* functions around them.  So a walk that reports no budget hit is complete, and
\* "Decompiles each visited function exactly once" holds across resumptions.
DeepLosesNothing ==
    answer.tool = "deep" /\ answer.result.ok =>
        LET next == DirectCalls(input.program, answer.calls)
            done == DOMAIN answer.result.functions
            pending == UNION {{token.pending[k][1] : k \in DOMAIN token.pending} :
                                 token \in answer.result.resume}
            around == [f \in DOMAIN next |-> IF f \in done THEN {} ELSE next[f]]
        IN  /\ Closure(next, {answer.root}) \subseteq done \cup Closure(around, pending \ done)
            /\ Distinct(answer.decompiled)
            /\ ToSet(answer.decompiled) = done

Steps(p, direction) ==
    [f \in DOMAIN p |-> (IF direction = "backward" THEN {} ELSE Calls(p)[f])
                        \cup (IF direction = "forward" THEN {} ELSE CalledBy(p)[f])]

CallRows(p, f) == {i \in DOMAIN p[f].body : p[f].body[i][1] \in {"call", "icall"}}
Uncut(p, F, budgets) == \A f \in F : Cardinality(CallRows(p, f)) <= budgets.max_calls

TracedRows(p, f, direction) ==
    {<<f, p[f].body[i]>> : i \in {i \in CallRows(p, f) : direction = "backward" => p[f].body[i][1] = "call"}}

ArgumentsAt(p, f, n) ==
    {p[f].body[i][3][n] : i \in {i \in CallRows(p, f) : n \in DOMAIN p[f].body[i][3]}} \ {0}

\* A data-flow trace or a value analysis that reports no truncation holds the
\* evidence of every function within its depth, each row once, and the constants
\* of every argument position, as long as no function has more calls than
\* max_calls; a truncated trace did reach one of its budgets.  The calls of a
\* function beyond max_calls are left out without a flag (deep.rs:343 and
\* valuean.rs:189 do not read calls_truncated), although valuean.rs:62 says "all
\* lists bounded, `truncated` flagged": then what is reported is part of the rest.
TraceIsComplete ==
    LET p == input.program
        b == answer.budgets
        r == answer.result
        Through(next) == [f \in DOMAIN p |-> IF f \in b.undecompilable THEN {} ELSE next[f]]
        Traced == Within(Through(Steps(p, answer.direction)), {answer.target}, b.depth - 1)
        Wanted == UNION {TracedRows(p, f, answer.direction) : f \in Traced \ b.undecompilable}
        Valued == Within(Calls(p), {answer.target}, b.depth - 1)
    IN  /\ answer.tool = "dataflow" =>
             /\ Distinct(r.evidence)
             /\ ToSet(r.evidence) \subseteq Wanted
             /\ ~r.truncated /\ Uncut(p, Traced, b) => ToSet(r.evidence) = Wanted
             /\ r.truncated => \/ Len(r.evidence) = b.max_calls
                               \/ Cardinality(r.visited) > b.max_functions
        /\ answer.tool = "values" /\ r.ok =>
             /\ \A key \in DOMAIN r.targets :
                   /\ key[1] \in Valued
                   /\ r.targets[key] \subseteq ArgumentsAt(p, key[1], key[2])
                   /\ Uncut(p, {key[1]}, b) => r.targets[key] = ArgumentsAt(p, key[1], key[2])
             /\ ~r.truncated => \A f \in Valued, n \in 1..2 :
                   Uncut(p, {f}, b) /\ ArgumentsAt(p, f, n) # {} => <<f, n>> \in DOMAIN r.targets

(***************************************************************************)
(* Large functions.                                                        *)
(***************************************************************************)
BlockCalls(g) == [x \in ToSet(g.nodes) |-> {y \in ToSet(g.nodes) : Contains(g.edges, <<x, y>>)}]

Cycle(next, x) == {y \in Closure(next, {x}) : x \in Closure(next, {y})}

\* Blocks are numbered by address, and the graphs of the instances by position.
RegionsAreExact(g, opts, regions) ==
    LET next == BlockCalls(g)
        Of(x) == {r \in DOMAIN regions : Contains(regions[r].blocks, x)}
    IN  /\ \A x \in DOMAIN next :
             /\ Cardinality(Of(x)) = 1
             /\ \A r \in Of(x) :
                   IF regions[r].role = "chunk"
                   THEN Cycle(next, x) = {x} /\ Len(regions[r].blocks) <= opts.max_chunk_blocks
                   ELSE /\ ToSet(regions[r].blocks) = Cycle(next, x)
                        /\ regions[r].role = "dispatcher"
                             <=> Len(regions[r].blocks) >= opts.min_dispatcher_scc
        /\ \A r \in DOMAIN regions : regions[r].succs =
             {s \in DOMAIN regions \ {r} : \E x \in ToSet(regions[r].blocks) :
                                             next[x] \cap ToSet(regions[s].blocks) # {}}

FlowFollowsRegions(regions, skipped, d) ==
    LET next == [r \in DOMAIN regions |-> regions[r].succs]
        Settles(r) == \A s \in DOMAIN regions :
                         r \in Closure(next, {s}) => Cycle(next, s) = {s}
    IN  /\ Distinct(d.completed)
        /\ \A i \in DOMAIN d.completed :
             regions[d.completed[i]].preds \subseteq {d.completed[j] : j \in 1..(i - 1)}
        /\ d.stop_reason = "converged" => d.frontier = {}
        /\ skipped = 0 /\ d.stop_reason # "work budget" =>
             ToSet(d.completed) = {r \in DOMAIN regions : Settles(r)}

\* Every block of a large function is analysed in exactly one region; the loops
\* are exactly the sets of mutually reachable blocks, whichever order tarjan_sccs
\* meets them in.  Facts reach a region only after all its predecessors and once,
\* and with the budget to do so they reach every region that is not behind a
\* cycle of regions.
RegionsAreSound ==
    answer.tool = "hierarchical" /\ answer.result.ok /\ answer.result.mode # "normal" =>
        /\ RegionsAreExact(input.graph, answer.opts, answer.result.regions)
        /\ FlowFollowsRegions(answer.result.regions, answer.result.skipped, answer.result.dataflow)

(***************************************************************************)
(* Evidence.                                                               *)
(***************************************************************************)
\* The structure proposed from several functions does not depend on the order in
\* which they are listed, and one more function never lowers the confidence in a
\* field that the others already gave.
RecoveryIsOrderFree ==
    answer.tool = "structure" /\ answer.result.ok =>
        LET functions == input.functions
            fewer == recover_structure(Front(functions), answer.limit)
        IN  /\ recover_structure(Reverse(functions), answer.limit).fields = answer.result.fields
            /\ fewer.ok => \A k \in DOMAIN fewer.fields :
                  fewer.fields[k].confidence <= answer.result.fields[k].confidence

Occurs(bytes, at, pattern) ==
    \A i \in DOMAIN pattern : at + i \in DOMAIN bytes /\ bytes[at + i] = pattern[i]

\* The places of a pattern that a scan of a segment from address 0 can see: inside
\* one chunk, before the first chunk that cannot be read.
Places(image, rule) ==
    LET bytes == image.segments[1].bytes
        chunk == image.opts.chunk
    IN  {at \in 0..(Len(bytes) - 1) :
            /\ Occurs(bytes, at, rule.bytes)
            /\ at \div chunk = (at + Len(rule.bytes) - 1) \div chunk
            /\ \A u \in image.opts.unreadable : at < u}

ActiveRules(image) ==
    IF image.packs = <<>> THEN ToSet(image.builtin)
    ELSE UNION {ToSet(image.packs[i].rules) : i \in {i \in DOMAIN image.packs : image.packs[i].enabled}}

\* The longest printable runs of at least four bytes, as <<first, length>>.
PrintableRuns(bytes) ==
    {<<i, n>> \in (DOMAIN bytes) \X (4..Len(bytes)) :
        /\ i + n - 1 \in DOMAIN bytes
        /\ \A k \in i..(i + n - 1) : bytes[k] = 1
        /\ (i - 1) \in DOMAIN bytes => bytes[i - 1] = 0
        /\ (i + n) \in DOMAIN bytes => bytes[i + n] = 0}

\* A crypto scan that stays below max_hits reports, and reports only, the
\* occurrences of the enabled rules that lie inside one chunk before the first
\* unreadable one; a string assembled from immediates is reported whole wherever
\* it ends, the last byte included.  Occurrences across two chunks and behind an
\* unreadable chunk are lost, although MCP_TOOLS.md:332 says "scans all segments",
\* and hits beyond max_hits (crypto.rs:279) are cut with truncated = false.
ScansAreComplete ==
    /\ answer.tool = "crypto" /\ answer.ok /\ Len(answer.result.findings) < answer.max =>
         {<<f.hit.rule, f.hit.ea>> : f \in ToSet(answer.result.findings)} =
             UNION {{r.id} \X Places(input.image, r) : r \in ActiveRules(input.image)}
    /\ answer.tool = "strings" =>
         LET runs == PrintableRuns(FlattenSeq(input.immediates))
         IN  /\ ToSet(answer.result) \subseteq runs
             /\ Len(answer.result) = Min({answer.max, Cardinality(runs)})

(***************************************************************************)
(* WebAssembly.                                                            *)
(***************************************************************************)
\* The number of constructs open after position p, the function included.
Balance(body, p) ==
    1 + Cardinality({i \in 1..p : body[i][1] \in Opening})
      - Cardinality({i \in 1..p : body[i][1] = "end"})

\* The end that closes the function, or one past the body.
LastOperator(body) == Min({p \in DOMAIN body : Balance(body, p) = 0} \cup {Len(body) + 1})

MatchingEnd(body, o) ==
    {p \in (o + 1)..Len(body) : /\ body[p][1] = "end"
                                /\ Balance(body, p) = Balance(body, o) - 1
                                /\ \A q \in o..(p - 1) : Balance(body, q) >= Balance(body, o)}

Encloses(body, o, p) ==
    /\ o < p /\ body[o][1] \in Opening
    /\ \A e \in MatchingEnd(body, o) : p < e

\* The construct a branch of the given depth at p leaves, counted inside out.
BranchTarget(body, p, depth) ==
    {o \in DOMAIN body : /\ Encloses(body, o, p)
                         /\ Cardinality({i \in (o + 1)..p : Encloses(body, i, p)}) = depth}

Depths(op) ==
    CASE op[1] \in {"br", "br_if"} -> {op[2]}
      [] op[1] = "br_table" -> ToSet(op[2])
      [] OTHER -> {}

\* The regions of a function without locals are the block, loop, if and try
\* constructs of its code with their matching ends, and each branch is recorded at
\* the construct its relative depth names, however deeply constructs nest and
\* wherever they were closed before; the tool refuses the function when, and only
\* when, an operator of it does not decode.  Offsets count from the declaration of
\* the locals, which is one byte when there are none.  A function with locals is left
\* out: analyze_body expects "locals already consumed" (cfg.rs:60) and wasm_tools.rs
\* hands it the declaration too, so its regions are not those of the code.
WasmBranchesResolve ==
    LET f == input.model.functions[CHOOSE k \in Found(input.model, answer.index) : TRUE]
        body == f.code
        live == 1..(LastOperator(body) - 1)
        regions == [r \in DOMAIN answer.result.cfg.regions |->
                       LET region == answer.result.cfg.regions[r]
                       IN  [start |-> region.start - 1,
                            ends |-> {region.end - 1} \ {-1},
                            sources |-> {p - 1 : p \in ToSet(region.branch_sources)}]]
        Starting(o) == {r \in DOMAIN regions : regions[r].start = o}
    IN  /\ answer.tool = "wasm" /\ answer.action = "cfg"
        /\ input.model.ok /\ Found(input.model, answer.index) # {} /\ f.locals = 0
        => /\ answer.result.ok <=> \A p \in live : body[p][1] # "bad"
           /\ answer.result.ok =>
              /\ \A o \in live : Cardinality(Starting(o)) = IF body[o][1] \in Opening THEN 1 ELSE 0
              /\ \A r \in DOMAIN regions :
                   LET o == regions[r].start
                   IN  /\ o \in live
                       /\ regions[r].ends = MatchingEnd(body, o)
                       /\ regions[r].sources =
                            {p \in live : \E d \in Depths(body[p]) : o \in BranchTarget(body, p, d)}

=============================================================================
