--------------------------- MODULE LargeFunction ---------------------------
(***************************************************************************)
(* Hierarchical analysis of large functions (crates/rmcp-broker/src:       *)
(* preflight.rs, largefn.rs, regions.rs, dataflow.rs, largefn_tools.rs).   *)
(* A function's graph is [nodes, edges, indirect, bytes]: the block        *)
(* addresses in the order the backend lists them, the pairs of addresses   *)
(* it reports as edges, the blocks it flags, the size of the function.     *)
(* A CFG index numbers the blocks from 1 in address order; a region is     *)
(* named by its position in the partition.  What the tools lock while they *)
(* wait for the disposable workers is in WorkerPool.                       *)
(***************************************************************************)
EXTENDS AnalysisIndex

\* Edges with an end outside the function are dropped, repeated ones kept once.
\* The indirect flags keep the order of the nodes.
cfg_index_from_graph(graph) ==
    LET eas == Ascending(ToSet(graph.nodes))
        At(ea) == SelectInSeq(eas, LAMBDA e : e = ea)
        Targets(i) ==
            FoldLeft(LAMBDA s, e : IF e[1] # eas[i] \/ At(e[2]) = 0 \/ Contains(s, At(e[2]))
                                   THEN s ELSE Append(s, At(e[2])),
                     <<>>, graph.edges)
    IN  [eas |-> eas, succs |-> [i \in DOMAIN eas |-> Targets(i)],
         indirect |-> [i \in DOMAIN eas |-> graph.nodes[i] \in graph.indirect]]

\* The profile is made of counts; sccs is never filled in.
complexity_from_function_graph(graph) ==
    [blocks |-> Len(graph.nodes), edges |-> Len(graph.edges), byte_size |-> graph.bytes,
     sccs   |-> 0]

mode(complexity, t) ==
    IF \/ complexity.blocks >= t.pathological_blocks
       \/ complexity.edges >= t.pathological_edges
       \/ complexity.byte_size >= t.pathological_bytes
       \/ complexity.sccs >= t.pathological_sccs
    THEN "pathological"
    ELSE IF \/ complexity.blocks >= t.large_blocks
            \/ complexity.edges >= t.large_edges
            \/ complexity.byte_size >= t.large_bytes
    THEN "large_region" ELSE "normal"

(***************************************************************************)
(* Strongly connected components: the iterative algorithm of Tarjan, with  *)
(* an explicit stack of <<block, successor cursor>>.                       *)
(***************************************************************************)
Discover(s, v) ==
    LET put(f) == [x \in DOMAIN f \cup {v} |-> IF x = v THEN s.next ELSE f[x]]
    IN  [s EXCEPT !.index = put(@), !.low = put(@), !.next = @ + 1,
                  !.stack = Append(@, v), !.call = Append(@, <<v, 1>>)]

Lower(s, v, n) == [s EXCEPT !.low[v] = Min({@, n})]

\* Mutant of Scan: a block of a finished component counts as on the stack.
ScanFinished(cfg, s) ==
    LET v == Last(s.call)[1]
        cursor == Last(s.call)[2]
        w == cfg.succs[v][cursor]
        moved == [s EXCEPT !.call[Len(s.call)] = <<v, cursor + 1>>]
    IN  IF w \notin DOMAIN s.index THEN Discover(moved, w) ELSE Lower(moved, v, s.index[w])

Scan(cfg, s) ==
    LET v == Last(s.call)[1]
        cursor == Last(s.call)[2]
        w == cfg.succs[v][cursor]
        moved == [s EXCEPT !.call[Len(s.call)] = <<v, cursor + 1>>]
    IN  IF w \notin DOMAIN s.index THEN Discover(moved, w)
        ELSE IF Contains(s.stack, w) THEN Lower(moved, v, s.index[w])
        ELSE moved

Finish(s) ==
    LET v == Last(s.call)[1]
        popped == [s EXCEPT !.call = Front(@)]
        up == IF popped.call = <<>> THEN popped
              ELSE Lower(popped, Last(popped.call)[1], s.low[v])
        from == SelectInSeq(s.stack, LAMBDA x : x = v)
    IN  IF s.low[v] # s.index[v] THEN up
        ELSE [up EXCEPT !.stack = SubSeq(@, 1, from - 1),
                        !.out = Append(@, Reverse(SubSeq(s.stack, from, Len(s.stack))))]

RECURSIVE Explore(_, _)
Explore(cfg, s) ==
    IF s.call = <<>> THEN s
    ELSE LET v == Last(s.call)
         IN  Explore(cfg, IF v[2] <= Len(cfg.succs[v[1]]) THEN Scan(cfg, s) ELSE Finish(s))

\* Components in order of size, largest first (stable).
LargestFirst(sccs) ==
    LET before(i, j) == \/ Len(sccs[i]) > Len(sccs[j])
                        \/ Len(sccs[i]) = Len(sccs[j]) /\ i < j
        order == Sorted(DOMAIN sccs, before)
    IN  [k \in DOMAIN order |-> sccs[order[k]]]

tarjan_sccs(cfg) ==
    LET none == [index |-> [x \in {} |-> 0], low |-> [x \in {} |-> 0], next |-> 0,
                 stack |-> <<>>, call |-> <<>>, out |-> <<>>]
        Visit(s, v) == IF v \in DOMAIN s.index THEN s ELSE Explore(cfg, Discover(s, v))
    IN  LargestFirst(FoldLeft(Visit, none, [i \in DOMAIN cfg.eas |-> i]).out)

(***************************************************************************)
(* Partition into regions.                                                 *)
(***************************************************************************)
Chunks(blocks, size) ==
    [k \in 1..((Len(blocks) + size - 1) \div size) |->
        Take(SubSeq(blocks, (k - 1) * size + 1, Len(blocks)), size)]

entry_exit_blocks(cfg, blocks) ==
    LET inside == ToSet(blocks)
        To(b) == ToSet(cfg.succs[b])
        external_pred(b) == \E p \in DOMAIN cfg.succs \ inside : b \in To(p)
    IN  [entry |-> {b \in inside : \/ external_pred(b)
                                   \/ To(b) \cap inside = {}
                                   \/ Len(blocks) = 1},
         exit  |-> {b \in inside : ~(To(b) \subseteq inside) \/ To(b) = {}}]

Region(cfg, role, blocks) ==
    [role |-> role, blocks |-> blocks] @@ entry_exit_blocks(cfg, blocks)

LoopRegions(cfg, loops, opts) ==
    [i \in DOMAIN loops |->
        Region(cfg, IF Len(loops[i]) >= opts.min_dispatcher_scc THEN "dispatcher" ELSE "loop",
               Ascending(ToSet(loops[i])))]

ChunkRegions(cfg, chunks) == [i \in DOMAIN chunks |-> Region(cfg, "chunk", chunks[i])]

Linked(cfg, regions) ==
    LET Leads(r, s) == /\ r # s
                       /\ \E b \in ToSet(regions[r].blocks) :
                             ToSet(cfg.succs[b]) \cap ToSet(regions[s].blocks) # {}
    IN  [r \in DOMAIN regions |->
            regions[r] @@ [preds |-> {s \in DOMAIN regions : Leads(s, r)},
                           succs |-> {s \in DOMAIN regions : Leads(r, s)}]]

\* loops: the components of more than one block.  The other blocks are cut into
\* chunks in address order.
RegionsAround(cfg, loops, opts) ==
    LET in_loop == UNION {ToSet(loops[i]) : i \in DOMAIN loops}
        singles == Ascending(DOMAIN cfg.eas \ in_loop)
    IN  Linked(cfg, LoopRegions(cfg, loops, opts)
                    \o ChunkRegions(cfg, Chunks(singles, opts.max_chunk_blocks)))

partition(cfg, opts) ==
    RegionsAround(cfg, SelectSeq(tarjan_sccs(cfg), LAMBDA c : Len(c) > 1), opts)

(***************************************************************************)
(* Facts flow through the region graph: a region is completed once all its *)
(* predecessors are.  A region without facts completes without looking at  *)
(* its successors.  The tool passes empty fact lists, so the cap on facts  *)
(* is never met; max_iterations is where the budget or the deadline stops. *)
(***************************************************************************)
Complete(regions, withFacts, d, r) ==
    LET done == ToSet(d.completed) \cup {r}
        woken == IF r \in withFacts
                 THEN {s \in regions[r].succs \cap d.pending : regions[s].preds \subseteq done}
                 ELSE {}
    IN  [completed |-> Append(d.completed, r),
         pending   |-> d.pending \ woken,
         ready     |-> d.ready \o Ascending(woken)]

RECURSIVE Iterate(_, _, _, _)
Iterate(regions, withFacts, d, left) ==
    IF d.ready = <<>> \/ left = 0 THEN d
    ELSE Iterate(regions, withFacts,
                 FoldLeft(LAMBDA a, r : Complete(regions, withFacts, a, r),
                          [d EXCEPT !.ready = <<>>], d.ready),
                 left - 1)

run_dataflow(regions, withFacts, max_iterations) ==
    LET sources == {r \in DOMAIN regions : regions[r].preds = {}}
        d == Iterate(regions, withFacts,
                     [completed |-> <<>>, pending |-> DOMAIN regions \ sources,
                      ready |-> Ascending(sources)], max_iterations)
    IN  [completed |-> d.completed,
         frontier  |-> DOMAIN regions \ ToSet(d.completed),
         stop_reason |-> IF d.ready # <<>> THEN "work budget"
                         ELSE IF d.pending = {} THEN "converged" ELSE "frontier settled"]

(***************************************************************************)
(* The tools.  outcomes: what run_isolated returns for each region.        *)
(***************************************************************************)
RegionStatus(outcome) ==
    CASE outcome = "Ok"          -> "complete"
      [] outcome = "BadResponse" -> "partial_fallback_raw"
      [] outcome = "Timeout"     -> "timeout"
      [] outcome = "Crashed"     -> "crashed"
      [] OTHER                   -> "rejected"

analyze_regions(regions, max_regions, max_iterations, outcomes) ==
    LET asked == 1..Min({Len(regions), max_regions})
        status == [r \in asked |-> RegionStatus(outcomes[r])]
        analyzed == {r \in asked : status[r] \in {"complete", "partial_fallback_raw"}}
    IN  [regions  |-> regions,
         status   |-> status,
         skipped  |-> Len(regions) - Cardinality(asked),
         partial  |-> Cardinality(analyzed) < Len(regions),
         dataflow |-> run_dataflow(regions, asked, max_iterations)]

\* Without a worker executable there is nothing to isolate a region in.
tool_analyze_hierarchical(graph, t, opts, max_regions, max_iterations, worker_exe, outcomes) ==
    LET m == mode(complexity_from_function_graph(graph), t)
    IN  IF m = "normal" THEN [ok |-> TRUE, mode |-> m]
        ELSE IF ~worker_exe THEN [ok |-> FALSE, mode |-> m]
        ELSE [ok |-> TRUE, mode |-> m]
             @@ analyze_regions(partition(cfg_index_from_graph(graph), opts),
                                max_regions, max_iterations, outcomes)

\* tried: Hex-Rays was asked for and there is a worker executable.
region_with(regions, region_id, tried, outcome) ==
    IF region_id \notin DOMAIN regions THEN [ok |-> FALSE]
    ELSE [ok      |-> TRUE,
          region  |-> regions[region_id],
          hexrays |-> IF ~tried THEN "none"
                      ELSE IF outcome = "BadResponse" THEN "fallback_raw"
                      ELSE RegionStatus(outcome)]

tool_analyze_region(graph, opts, region_id, tried, outcome) ==
    region_with(partition(cfg_index_from_graph(graph), opts), region_id, tried, outcome)
=============================================================================
