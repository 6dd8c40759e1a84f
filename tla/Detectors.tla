----------------------------- MODULE Detectors -----------------------------
(***************************************************************************)
(* Rule packs (crates/rmcp-worker/src/rules.rs) and the scans that use     *)
(* them or the index (crypto.rs): constants in the segments, API-hash      *)
(* resolvers, strings assembled from immediates.                           *)
(*                                                                         *)
(* A pack file is [name, well_formed, enabled, rules]; a rule is [id,      *)
(* kind, valid, bytes, rarity], valid standing for the checks of the       *)
(* fields of its kind.  A segment is [start, bytes, perms]; addresses in   *)
(* unreadable cannot be read.                                              *)
(***************************************************************************)
EXTENDS Lists, SequencesExt

RuleKinds == {"constant", "string", "api_hash"}

\* A pack is refused as a whole: format, ids, kinds, fields.
parse_rules_value(file) ==
    LET ids == [i \in DOMAIN file.rules |-> file.rules[i].id]
    IN  /\ file.well_formed
        /\ \A i \in DOMAIN ids : ids[i] # "bad" /\ \A j \in DOMAIN ids : ids[i] = ids[j] => i = j
        /\ \A i \in DOMAIN file.rules :
              file.rules[i].kind \in RuleKinds /\ file.rules[i].valid

RulesOfKind(file, kind) == SelectSeq(file.rules, LAMBDA r : r.kind = kind)

builtin_packs(builtin) ==
    [ok |-> TRUE, packs |-> <<[name |-> "builtin", enabled |-> TRUE, constants |-> builtin]>>]

\* The files are in the order of their pack names.  The first bad file fails the
\* load; no file at all selects the built-in pack.
load_effective(files, builtin) ==
    IF \E i \in DOMAIN files : ~parse_rules_value(files[i]) THEN [ok |-> FALSE]
    ELSE IF files = <<>> THEN builtin_packs(builtin)
    ELSE [ok |-> TRUE,
          packs |-> [i \in DOMAIN files |->
                        [name |-> files[i].name, enabled |-> files[i].enabled,
                         constants |-> RulesOfKind(files[i], "constant")]]]

(***************************************************************************)
(* crypto_scan.                                                            *)
(***************************************************************************)
Scanned(seg, max_size) ==
    /\ Len(seg.bytes) \in 1..max_size
    /\ ~("x" \in seg.perms /\ "w" \notin seg.perms /\ "r" \notin seg.perms)

\* The chunks of a segment up to the first that cannot be read.
ReadableChunks(seg, chunk, unreadable) ==
    LET offsets == {k * chunk : k \in 0..((Len(seg.bytes) - 1) \div chunk)}
        bad == {o \in offsets : seg.start + o \in unreadable}
        read == {o \in offsets : \A b \in bad : o < b}
    IN  [k \in 1..Cardinality(read) |->
            [base |-> seg.start + (k - 1) * chunk,
             bytes |-> Take(SubSeq(seg.bytes, (k - 1) * chunk + 1, Len(seg.bytes)), chunk)]]

\* Where a pattern occurs inside a chunk, in address order.
Windows(chunk, rule) ==
    LET n == Len(rule.bytes)
        at == {i \in 1..(Len(chunk.bytes) - n + 1) : SubSeq(chunk.bytes, i, i + n - 1) = rule.bytes}
        found == Ascending(IF n = 0 \/ n > Len(chunk.bytes) THEN {} ELSE at)
    IN  [k \in DOMAIN found |-> [ea |-> chunk.base + found[k] - 1, rule |-> rule.id,
                                 confidence |-> rule.rarity]]

AllHits(segments, rules, opts) ==
    FlattenSeq([s \in DOMAIN segments |->
        IF ~Scanned(segments[s], opts.max_segment) THEN <<>>
        ELSE LET chunks == ReadableChunks(segments[s], opts.chunk, opts.unreadable)
             IN  FlattenSeq([c \in DOMAIN chunks |->
                     FlattenSeq([r \in DOMAIN rules |-> Windows(chunks[c], rules[r])])])])

\* The hit must lie at or before the end of the function with the greatest
\* start at or below it.
containing_function(idx, ends, ea) ==
    LET below == {f \in DOMAIN idx : f <= ea}
    IN  IF below = {} THEN {} ELSE {Max(below)} \cap {f \in DOMAIN idx : ea <= ends[f]}

\* Collecting stops at four times max_hits; then hits are ranked and cut.
crypto_scan(idx, ends, segments, set, max_hits, opts) ==
    LET rules == FlattenSeq([i \in DOMAIN set.packs |->
                     IF set.packs[i].enabled THEN set.packs[i].constants ELSE <<>>])
        all == AllHits(segments, rules, opts)
        hits == Take(all, max_hits * 4)
        before(i, j) ==
            \/ hits[i].confidence > hits[j].confidence
            \/ hits[i].confidence = hits[j].confidence /\ hits[i].ea < hits[j].ea
            \/ hits[i].confidence = hits[j].confidence /\ hits[i].ea = hits[j].ea /\ i < j
        ranked == Take(Sorted(DOMAIN hits, before), max_hits)
    IN  [findings  |-> [k \in DOMAIN ranked |->
                           [hit |-> hits[ranked[k]],
                            function |-> containing_function(idx, ends, hits[ranked[k]].ea)]],
         truncated |-> Len(all) >= max_hits * 4]

(***************************************************************************)
(* resolve_api_hashes: a constant matches the names whose hash it is; at   *)
(* most four names count per constant, and eight end the search.           *)
(***************************************************************************)
build_corpus(imports, hash) ==
    [h \in {hash[n] : n \in imports} |-> {n \in imports : hash[n] = h}]

\* A constant is cut to the width of a hash: keys is the number of u32 values.
Verified(corpus, constants, keys) ==
    FoldLeft(LAMBDA n, c : IF n >= 8 \/ c % keys \notin DOMAIN corpus THEN n
                           ELSE n + Min({4, Cardinality(corpus[c % keys])}),
             0, constants)

HashConfidence(n) == CASE n = 1 -> 45 [] n = 2 -> 75 [] n = 3 -> 88 [] OTHER -> 95

resolve_api_hashes(idx, sizes, corpus, keys, max_findings) ==
    LET verified(f) == Verified(corpus, Ascending(idx[f].constants), keys)
        found == SelectSeq(Ascending(DOMAIN idx),
                     LAMBDA f : /\ sizes[f] <= 2048
                                /\ Cardinality(idx[f].constants) >= 2
                                /\ verified(f) > 0)
        kept == Take(found, max_findings)
        before(f, g) == \/ HashConfidence(verified(f)) > HashConfidence(verified(g))
                        \/ HashConfidence(verified(f)) = HashConfidence(verified(g)) /\ f < g
    IN  [findings |-> Sorted(ToSet(kept), before),
         truncated |-> Len(kept) >= max_findings]

(***************************************************************************)
(* recover_strings: runs of printable bytes in the immediates of a         *)
(* function.  Bytes are 1 (printable) or 0.                                *)
(***************************************************************************)
ScanByte(max_strings, acc, b) ==
    LET len == acc.pos - acc.run
        kept == IF len >= 4 THEN Append(acc.strings, <<acc.run, len>>) ELSE acc.strings
    IN  IF acc.stopped THEN acc
        ELSE IF b = 1
        THEN [acc EXCEPT !.pos = @ + 1, !.run = IF @ = 0 THEN acc.pos ELSE @]
        ELSE IF acc.run = 0 THEN [acc EXCEPT !.pos = @ + 1]
        ELSE IF len >= 4 /\ Len(kept) >= max_strings
        THEN [acc EXCEPT !.strings = kept, !.stopped = TRUE]
        ELSE [acc EXCEPT !.strings = kept, !.pos = @ + 1, !.run = 0]

\* Mutant of recover_strings: a run that reaches the last byte is forgotten.
recover_stringsInside(immediates, max_strings) ==
    FoldLeft(LAMBDA a, b : ScanByte(max_strings, a, b),
             [pos |-> 1, run |-> 0, strings |-> <<>>, stopped |-> FALSE],
             FlattenSeq(immediates)).strings

recover_strings(immediates, max_strings) ==
    LET bytes == FlattenSeq(immediates)
        acc == FoldLeft(LAMBDA a, b : ScanByte(max_strings, a, b),
                        [pos |-> 1, run |-> 0, strings |-> <<>>, stopped |-> FALSE], bytes)
        trailing == Len(bytes) + 1 - acc.run
    IN  IF acc.run > 0 /\ trailing >= 4 /\ Len(acc.strings) < max_strings
        THEN Append(acc.strings, <<acc.run, trailing>>) ELSE acc.strings
=============================================================================
