SPECIFICATION MediaSpec
CONSTANTS
    Handles = {h1, h2}
    None = None
    Sides = {"caller", "callee"}
    Kinds <- Both
    Results <- Handled
    MaxFails = 2
    MaxTasks = 2
    Businesses <- AllBusinesses
    RoomCap = 2
    MaxSessions = 2
    GuardCap = 4
    Capacity = 3
    Calls = 7
SYMMETRY Connections
INVARIANTS
    SendsOnOpenHandle
    HearsWhatItAsked
PROPERTIES
    ImplementsFifo
CHECK_DEADLOCK FALSE
