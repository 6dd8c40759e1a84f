------------------------ MODULE DiscoveryReference ------------------------
(***************************************************************************)
(* Which installs a host offers and which of them is the best, from the    *)
(* directories that the sources name alone: no list of candidates, no      *)
(* order of sources, no cache.                                             *)
(***************************************************************************)
EXTENDS Discovery

\* The directories one level up, and d with those one and two levels up.
Parents(host, D) == {host.parent[d] : d \in D \cap DOMAIN host.parent}

Above(host, d) == {d} \cup Parents(host, {d}) \cup Parents(host, Parents(host, {d}))

\* The directories some source names, whatever is in them.
Named(host) ==
    (UNION {Above(host, d) : d \in host.env}) \cup host.config \cup Range(host.common)
    \cup Range(host.hints) \cup {host.native[k][1] : k \in DOMAIN host.native}

\* The directories at most four levels below the root, whatever is in them.
Inside(host, D) == UNION {Range(host.children[d]) : d \in D \cap DOMAIN host.children}

Scannable(host) ==
    LET one == Inside(host, {"root"})
        two == Inside(host, one)
        three == Inside(host, two)
    IN  {"root"} \cup one \cup two \cup three \cup Inside(host, three)

\* d holds an install that the requirement asks for and a verified backend drives.
Would(host, req, d) ==
    /\ d \in DOMAIN host.version
    /\ Satisfies(req, host.version[d])
    /\ backend_status(host.version[d]) = "ready"

\* An explicit directory with an install overrules every other source.
Overruled(host) == \E d \in host.explicit : d \in DOMAIN host.version

\* install would do and, unless it was named explicitly, nothing named is later.
BestInstall(host, req, install) ==
    /\ install.dir \in DOMAIN host.version
    /\ Satisfies(req, install.version)
    /\ req.latest \/ backend_status(install.version) = "ready"
    /\ \/ Overruled(host)
       \/ \A d \in Named(host) : Would(host, req, d) => host.version[d] <= install.version

\* Nothing that a source names would do; IdaNotFound says that nothing is there at all.
NothingWouldDo(host, req, error) ==
    /\ Overruled(host) \/ \A d \in Named(host) : ~Would(host, req, d)
    /\ error = "IdaNotFound" =>
          DOMAIN host.version \cap (host.explicit \cup Named(host) \cup Scannable(host)) = {}
=============================================================================
