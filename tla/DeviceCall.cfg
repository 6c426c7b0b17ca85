SPECIFICATION Spec
CONSTANTS
    Outgoing = {o1}
    Incoming = {i1}
    NoRoom = NoRoom
    MaxTasks = 1
    MaxOffers = 1
    Retries = 2
    Commands = {"call", "accept", "hangup", "cancel", "reject"}
INVARIANTS
    CancelledCallIsNotResurrected
    NobodyIsStuck
    HeldSessionIsWatched
