SPECIFICATION FairSpec
CONSTANTS
    Workers = {w1, w2}
    Wait = 2
    Second = 4
INVARIANTS
    TypeOK
    FlagMeansRequest
    OnePerRequest
    ReplyToLast
    NeverEarly
PROPERTY
    ComesToRest
