SPECIFICATION Spec
CONSTANTS
    Addr = {a1, a2, a3}
    Pollers = {p1}
    Workers = {w1, w2}
    Responders = {x1, x2}
    NumBuckets = 2
    Requests = {r1, r2}
    Kills = {}
    None = None
    BucketsFail = FALSE
    LookupCanMiss = FALSE
INVARIANT
    MapChangesAlone
