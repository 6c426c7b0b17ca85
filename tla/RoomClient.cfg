SPECIFICATION FairSpec
CONSTANTS
    Conns = {c1}
    NoConn = NoConn
    QueueCap = 2
INVARIANTS
    NoConnectionLeft
PROPERTIES
    JoinsOrEnds
    RoomComesBack
