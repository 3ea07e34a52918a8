SPECIFICATION Spec
CONSTANTS
    Users = {u1}
    r1 = r1
    r2 = r2
    n1 = n1
    n2 = n2
    Repos = {r1, r2}
    Names = {n1, n2, n3}
    Devices = {d1}
    Polls = {p1}
    Approvals = {a1}
    NoName = NoName
    NoUser = NoUser
    NoRepo = NoRepo
    NoDevice = NoDevice
    StartRepos <- TwoManual
    Ttl = 1
    MaxClock = 0
    MaxTokens = 1
    MaxEvents = 2
INVARIANT
    TokenForRequested
CHECK_DEADLOCK FALSE
