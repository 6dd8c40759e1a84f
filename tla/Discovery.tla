----------------------------- MODULE Discovery -----------------------------
(***************************************************************************)
(* Discovery and selection of IDA installations                            *)
(* (crates/rmcp-core/src/discovery.rs, backend_registry.rs).               *)
(*                                                                         *)
(* A host is [version, children, parent, explicit, env, config, profile,   *)
(* native, common, hints, cache].  version maps each directory that holds  *)
(* the two runtime libraries to the version its files tell, Unknown when   *)
(* they do not; children lists the subdirectories of a directory that the  *)
(* scan does not skip; explicit, env, config and cache are sets of at most *)
(* one directory, for cache one entry [dir, fresh] of discovery.json;      *)
(* profile is the directory above the configuration's; native pairs a      *)
(* directory with the version its registration names.  92 stands for 9.2.  *)
(***************************************************************************)
EXTENDS Lists

Unknown == 0

\* The versions with a backend, each with the result of its real-IDA suite.
KNOWN_BACKENDS == [v \in {92, 94} |-> TRUE]

HostType(host) ==
    /\ host = [version |-> host.version, children |-> host.children, parent |-> host.parent,
               explicit |-> host.explicit, env |-> host.env, config |-> host.config,
               profile |-> host.profile, native |-> host.native, common |-> host.common,
               hints |-> host.hints, cache |-> host.cache]
    /\ \A d \in DOMAIN host.version : host.version[d] \in Nat
    /\ \A d \in DOMAIN host.children : host.children[d] \in Seq(Range(host.children[d]))
    /\ \A S \in {host.explicit, host.env, host.config} : \A d, e \in S : d = e
    /\ \A s \in {host.common, host.hints} : s \in Seq(Range(s))
    /\ host.native \in Seq(Range(host.native))
    /\ \A k \in DOMAIN host.native : host.native[k][2] \in Nat

backend_status(v) ==
    IF v \notin DOMAIN KNOWN_BACKENDS THEN "unavailable"
    ELSE IF KNOWN_BACKENDS[v] THEN "ready" ELSE "available_unverified"

is_valid_ida_dir(host, d) == d \in DOMAIN host.version

\* What the files say; failing that, what the source says.
detect_version(host, d, hint) ==
    IF host.version[d] # Unknown THEN host.version[d] ELSE hint

(***************************************************************************)
(* Version requirements: [latest, constraints], a constraint being a pair  *)
(* <<relation, version>>.  The build number is not compared.               *)
(***************************************************************************)
ConstraintMatches(c, v) ==
    CASE c[1] = "="  -> v = c[2]
      [] c[1] = ">=" -> v >= c[2]
      [] c[1] = "<=" -> v <= c[2]
      [] c[1] = ">"  -> v > c[2]
      [] c[1] = "<"  -> v < c[2]

Satisfies(req, v) == \A c \in req.constraints : ConstraintMatches(c, v)

(***************************************************************************)
(* Sources, in order of priority.                                          *)
(***************************************************************************)
Upwards(host, d, levels) ==
    LET up[n \in 0..levels] ==
            IF n = 0 THEN <<d>>
            ELSE LET s == up[n - 1]
                 IN  IF LastOf(s) \in DOMAIN host.parent THEN Append(s, host.parent[LastOf(s)]) ELSE s
    IN  up[levels]

OneOf(S) == IF S = {} THEN <<>> ELSE <<CHOOSE x \in S : TRUE>>

From(dirs, source) == [k \in DOMAIN dirs |-> [dir |-> dirs[k], source |-> source, hint |-> Unknown]]

EnvCandidates(host) ==
    IF host.env = {} THEN <<>> ELSE Upwards(host, CHOOSE d \in host.env : TRUE, 2)

\* The first valid directory at or above the one the file names, then the
\* profile directory when it is an install itself.
ida_config_dirs(host) ==
    LET up == Upwards(host, CHOOSE d \in host.config : TRUE, 3)
        valid == {k \in DOMAIN up : is_valid_ida_dir(host, up[k])}
    IN  (IF host.config = {} \/ valid = {} THEN <<>> ELSE <<up[Min(valid)]>>)
        \o OneOf({d \in {host.profile} : is_valid_ida_dir(host, d)})

os_native_candidates(host) ==
    [k \in DOMAIN host.native |-> [dir |-> host.native[k][1], source |-> "os_native",
                                   hint |-> host.native[k][2]]]

reg_hint_candidates(host) ==
    LET valid == Ascending({k \in DOMAIN host.hints : is_valid_ida_dir(host, host.hints[k])})
    IN  [n \in DOMAIN valid |-> host.hints[valid[n]]]

Subdirectories(host, d) == IF d \in DOMAIN host.children THEN host.children[d] ELSE <<>>

\* Depth first, in directory order: what is found in each directory when the scan
\* may go n levels further down.
scan_dir(host, levels) ==
    LET dirs == {"root"} \cup UNION {Range(host.children[d]) : d \in DOMAIN host.children}
        found[n \in 0..levels] ==
            [d \in dirs |->
                LET below == Subdirectories(host, d)
                    hits == {k \in DOMAIN below : found[n - 1][below[k]] # <<>>}
                IN  IF is_valid_ida_dir(host, d) THEN <<d>>
                    ELSE IF n = 0 THEN <<>>
                    ELSE IF hits = {} THEN <<>> ELSE found[n - 1][below[Min(hits)]]]
    IN  found[levels]

\* Mutant of CacheHits: a fresh entry is used although its directory is gone.
CacheHitsUnchecked(host) == {e \in host.cache : e.fresh}

\* A cached answer is used while it is fresh and the directory still valid;
\* otherwise the drives are scanned, and what is found is cached.
CacheHits(host) == {e \in host.cache : e.fresh /\ is_valid_ida_dir(host, e.dir)}

cached_drive_scan(host) ==
    IF CacheHits(host) # {} THEN <<(CHOOSE e \in CacheHits(host) : TRUE).dir>>
    ELSE scan_dir(host, 4)["root"]

CacheAfter(host) ==
    LET found == cached_drive_scan(host)
    IN  IF CacheHits(host) # {} \/ found = <<>> THEN host.cache
        ELSE {[dir |-> found[1], fresh |-> TRUE]}

(***************************************************************************)
(* discover_all.  A directory counts once, as the first source that names  *)
(* it sees it; a valid explicit directory is the only answer.              *)
(***************************************************************************)
Push(host, found, c) ==
    IF \/ \E k \in DOMAIN found : found[k].dir = c.dir
       \/ ~is_valid_ida_dir(host, c.dir)
    THEN found
    ELSE Append(found, [dir |-> c.dir, source |-> c.source,
                        version |-> detect_version(host, c.dir, c.hint)])

Candidates(host) ==
    From(EnvCandidates(host), "env")
    \o From(ida_config_dirs(host), "config")
    \o os_native_candidates(host)
    \o From(host.common, "common_paths")
    \o From(reg_hint_candidates(host), "reg_hint")
    \o From(cached_drive_scan(host), "drive_scan")

Discovered(host, candidates) ==
    LET upTo[k \in 0..Len(candidates)] == IF k = 0 THEN <<>>
                                          ELSE Push(host, upTo[k - 1], candidates[k])
    IN  upTo[Len(candidates)]

\* The list is sorted by version only (a stable sort).
ByVersion(found) ==
    LET before(i, j) == \/ found[i].version > found[j].version
                        \/ found[i].version = found[j].version /\ i < j
        order == Sorted(DOMAIN found, before)
    IN  [k \in DOMAIN order |-> found[order[k]]]

discover_all(host) ==
    LET explicit == Discovered(host, From(OneOf(host.explicit), "explicit"))
    IN  IF explicit # <<>> THEN explicit
        ELSE ByVersion(Discovered(host, Candidates(host)))

\* An explicit answer leaves the drives unscanned.
ScansDrives(host) == \A d \in host.explicit : ~is_valid_ida_dir(host, d)

\* The best ready install; an unverified one only when no version was asked.
resolve_with(host, req) ==
    LET all == discover_all(host)
        matching == {k \in DOMAIN all : Satisfies(req, all[k].version)}
        ready == {k \in matching : backend_status(all[k].version) = "ready"}
        Best(K) == all[Max({k \in K : \A j \in K : all[j].version <= all[k].version})]
    IN  IF all = <<>> THEN [ok |-> FALSE, error |-> "IdaNotFound"]
        ELSE IF matching = {} THEN [ok |-> FALSE, error |-> "IdaVersionMismatch"]
        ELSE IF ready # {} THEN [ok |-> TRUE, install |-> Best(ready)]
        ELSE IF req.latest THEN [ok |-> TRUE, install |-> Best(matching)]
        ELSE [ok |-> FALSE, error |-> "CapabilityUnavailable"]
=============================================================================
