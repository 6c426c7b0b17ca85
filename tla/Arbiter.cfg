SPECIFICATION FairSpec
CONSTANTS
    Kinds = {"VOIP", "CALL", "ROOM"}
    Rooms = {r1}
    QueueCap = 3
    MaxGeneration = 2
    MaxFailures = 3
INVARIANTS
    RuntimeAndOwnerAgree
    TicketUnderOwner
PROPERTIES
    RollbackOnlyUndoesBegin
    OwnershipSpec
    AskedToEndEnds
    ShutdownCompletes
CHECK_DEADLOCK FALSE
