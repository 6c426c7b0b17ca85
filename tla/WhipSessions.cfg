SPECIFICATION WhipSpec
CONSTANTS
    NoRoom = NoRoom
    MaxAttempts = 3
    MaxTasks = 3
    Own = {w1}
    Incoming = {r1}
    VoipAttempts = 2
    VoipTasks = 2
INVARIANTS
    NoConnectionLeft
    WaitingIsTimed
    VoipHeldIsWatched
    VoipTimedOutStaysDown
