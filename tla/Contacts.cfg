SPECIFICATION ContactsSpec
SYMMETRY Alike
CONSTANTS
    u1 = u1
    u2 = u2
    u3 = u3
    Users = {u1, u2, u3}
    Devs = {1, 2, 3}
    FirstOwner <- Strangers
    MaxContactsPerDevice = 1
    Asked = {"add", "respond"}
    MaxTurns = 0
    WxEditions = 4
    TurnDevs = {1, 2}
    TurnUsers = {u1, u2}
    TurnOwner <- Siblings
    TurnLimit = 1
    TurnAsked = {"delete", "list", "page"}
    Turns = 2
    Nobody = Nobody
    Reqs = {r1, r2}
    NoReq = NoReq
INVARIANTS
    NoticesAreFollowed
    ManualWithinLimit
PROPERTIES
    ListsGoForward
CHECK_DEADLOCK FALSE
