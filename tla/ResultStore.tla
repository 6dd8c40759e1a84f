---------------------------- MODULE ResultStore ----------------------------
(***************************************************************************)
(* The store of large answers (crates/rmcp-core/src/result_store.rs), the  *)
(* janitor that bounds it (crates/rmcp-broker/src/lib.rs) and the          *)
(* ida_result tool.  Handles are numbered in the order they are issued;    *)
(* reading the metadata of a result or searching the store changes         *)
(* nothing and is left out.                                                *)
(***************************************************************************)
EXTENDS Naturals, Sequences, FiniteSets

CONSTANTS
    Lengths,       \* lengths of serialised answers
    Threshold,     \* Config::result_threshold
    ResultTTL,     \* Config::result_ttl
    MaxEntries,    \* Config::result_max_entries, 0 for no cap
    MaxResults,    \* bound: results stored
    MaxTime        \* bound: the clock

ASSUME StoreAssumption ==
    /\ Lengths \subseteq Nat
    /\ {Threshold, ResultTTL, MaxEntries, MaxResults, MaxTime} \subseteq Nat

VARIABLES
    now,       \* the clock
    created,   \* created[h]: when handle h was issued
    store,     \* the handles with an entry
    released,  \* the handles the agent has released
    janitor    \* "idle", or "swept" between its sweep and its cap

storeVars == <<now, created, store, released, janitor>>

Handles == 1..Len(created)

Expired(h) == now >= created[h] + ResultTTL

StoreInit ==
    /\ now = 0
    /\ created = <<>>
    /\ store = {}
    /\ released = {}
    /\ janitor = "idle"

\* bound_output: an answer over the threshold is stored and its handle returned;
\* a shorter one is returned inline.
put(len) ==
    /\ Len(created) < MaxResults
    /\ IF len > Threshold
       THEN /\ created' = Append(created, now)
            /\ store' = store \cup {Len(created) + 1}
       ELSE UNCHANGED <<created, store>>
    /\ UNCHANGED <<now, released, janitor>>

\* A read drops the entry it finds expired.
get(h) ==
    /\ store' = IF Expired(h) THEN store \ {h} ELSE store
    /\ UNCHANGED <<now, created, released, janitor>>

\* The expiry is not looked at.
release(h) ==
    /\ h \in store
    /\ store' = store \ {h}
    /\ released' = released \cup {h}
    /\ UNCHANGED <<now, created, janitor>>

sweep ==
    /\ janitor = "idle"
    /\ store' = {h \in store : ~Expired(h)}
    /\ janitor' = "swept"
    /\ UNCHANGED <<now, created, released>>

Excess == IF Cardinality(store) <= MaxEntries THEN 0 ELSE Cardinality(store) - MaxEntries

\* Mutant of Oldest: the newest entries are evicted.
Newest(n) ==
    {E \in SUBSET store :
        /\ Cardinality(E) = n
        /\ \A e \in E, k \in store \ E : created[e] >= created[k]}

\* The oldest entries; those created at the same instant come in any order.
Oldest(n) ==
    {E \in SUBSET store :
        /\ Cardinality(E) = n
        /\ \A e \in E, k \in store \ E : created[e] <= created[k]}

\* After the sweep of the jobs, during which other requests run.
enforce_cap ==
    /\ janitor = "swept"
    /\ IF MaxEntries > 0 THEN \E E \in Oldest(Excess) : store' = store \ E
                         ELSE store' = store
    /\ janitor' = "idle"
    /\ UNCHANGED <<now, created, released>>

StoreTick ==
    /\ now < MaxTime
    /\ now' = now + 1
    /\ UNCHANGED <<created, store, released, janitor>>

StoreNext ==
    \/ \E len \in Lengths : put(len)
    \/ \E h \in Handles : get(h) \/ release(h)
    \/ sweep
    \/ enforce_cap
    \/ StoreTick

StoreSpec == StoreInit /\ [][StoreNext]_storeVars

StoreTypeOK ==
    /\ now \in Nat
    /\ created \in Seq(Nat)
    /\ store \subseteq Handles
    /\ released \subseteq Handles
    /\ janitor \in {"idle", "swept"}

\* Besides h, the handles issued no earlier than h.
NoOlder(h) == {k \in Handles \ {h} : created[k] >= created[h]}

\* A result the agent has a handle of stays readable until the agent releases
\* it, its TTL runs out, or the cap is on and at least MaxEntries other results
\* were stored since: neither the janitor, whose sweep and cap are two steps
\* with requests in between, nor a read of another handle loses one earlier.
StoreKeepsResults ==
    \A h \in Handles \ (store \cup released) :
        \/ Expired(h)
        \/ MaxEntries > 0 /\ Cardinality(NoOlder(h)) >= MaxEntries
=============================================================================
