\* A caller whose groups change, one whose groups do not, and one on an allowlist;
\* a cache of one entry, overlapping lookups, and time for an answer to grow old.
CONSTANTS
    Users = {u1, u2, a1}
    AdjusterUsers = {a1}
    BusinessUsers = {}
    Movers = {u1}
    Actions = {"finalize"}
    Requests = {r1, r2}
    MaxEntries = 1
    Ttl = 2
    Timeout = 1
    None = None
SPECIFICATION Spec
INVARIANTS CacheBounded
PROPERTIES GrantsAreCurrent DenialsAreCurrent
SYMMETRY RequestSymmetry
