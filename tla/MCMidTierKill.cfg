SPECIFICATION Spec
CONSTANTS
    Addr = {a1, a2, a3, a4}
    Pollers = {p1, p2}
    Workers = {w1, w2}
    Responders = {x1, x2}
    NumBuckets = 2
    Requests = {r1, k1, k2}
    Kills = {k1, k2}
    None = None
    BucketsFail = FALSE
    LookupCanMiss = FALSE
SYMMETRY Symmetric
INVARIANTS
    NeverStuck
    ReplyComplete
