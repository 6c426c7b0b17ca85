SPECIFICATION Spec
CONSTANTS
    Devices = {a, b}
    Rooms = {r1, r2}
    Workers = {w1, w2}
    MaxDeaths = 1
SYMMETRY Symmetry
INVARIANTS
    ReleasedIsGone
    SerialRequestsKeepStep
    NobodyLeftBehind
CHECK_DEADLOCK FALSE
