SPECIFICATION Spec
CONSTANTS
    Devices = {a, b, c}
    Rooms = {r1}
    Workers = {w1, w2, w3}
    MaxDeaths = 1
SYMMETRY Symmetry
INVARIANTS
    AnswerIsExclusive
    LockHolderBelongs
CHECK_DEADLOCK FALSE
