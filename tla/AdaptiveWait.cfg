SPECIFICATION Spec
CONSTANTS
    Worker = {w1, w2}
    w1 = w1
    w2 = w2
    Period = 2
    FirstStep = 6
    Times = {1, 2}
    MaxRequests = 6
INVARIANTS
    TypeOK
    StepMoves
    DivideRaced
