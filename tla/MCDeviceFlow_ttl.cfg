SPECIFICATION Spec
CONSTANTS
    Users = {u1}
    r1 = r1
    r2 = r2
    n1 = n1
    n2 = n2
    Repos = {r1}
    Names = {n1}
    Devices = {d1}
    Polls = {p1}
    Approvals = {a1}
    NoName = NoName
    NoUser = NoUser
    NoRepo = NoRepo
    NoDevice = NoDevice
    StartRepos <- OneRepo
    Ttl = 1
    MaxClock = 2
    MaxTokens = 1
    MaxEvents = 0
INVARIANT
    RedeemedWithinTtl
CHECK_DEADLOCK FALSE
