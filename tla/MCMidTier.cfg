SPECIFICATION Spec
CONSTANTS
    Addr = {a1, a2, a3}
    Pollers = {p1}
    Workers = {w1, w2}
    Responders = {x1, x2}
    NumBuckets = 2
    Requests = {r1, r2, r3}
    Kills = {}
    None = None
    BucketsFail = TRUE
    LookupCanMiss = TRUE
SYMMETRY Symmetric
INVARIANTS
    TypeOK
    FineLockKept
    NoHeldMutexErased
    NoStaleAnswer
    NoUseAfterDelete
    ReplyComplete
    ListenersKept
    IInv
    NoCallLost
    NeverStuck
    StatusTellsEvent
    EntryAlwaysFound
PROPERTIES
    AnswersKept
    Implements
