SPECIFICATION Spec
CONSTANTS
    NoRoom = NoRoom
    Own = {w1}
    Incoming = {r1}
    MaxAttempts = 2
    MaxTasks = 2
INVARIANT
    CancelledDialStaysDown
