SPECIFICATION ServersSpec
CONSTANTS
    m1 = m1
    d1 = d1
    d2 = d2
    Boards = {m1}
    Users = {u1, u2}
    Ids = {d1, d2}
    PoolOrder <- Pool
    Factory <- Either
    Reqs = {r1, r2}
    Quota = 2
    MaxCodes = 1
    Lapses = TRUE
    NoBoard = NoBoard
    Nobody = Nobody
    NoId = NoId
    Keep = Keep
    NoReq = NoReq
    Servers = {s1, s2}
    Ttl = 5
    MaxSessions = 2
    MaxStarts = 2
    MaxUnbinds = 1
    MaxLost = 1
    Identities = {i1, i2}
    MaxBoots = 2
    None = None
    Half = Half
    Torn = Torn
SYMMETRY Alike
INVARIANTS
    QuotaLedger
    OneIdentityPerUser
    PresenceFollows
    NothingOutlivesWhatItUses
    IdentityIsKept
PROPERTIES
    OwnerUntilUnbound
CHECK_DEADLOCK FALSE
