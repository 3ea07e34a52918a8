SPECIFICATION FairSpec
CONSTANTS
    Users = {u1}
    r1 = r1
    r2 = r2
    n1 = n1
    n2 = n2
    Repos = {r1, r2}
    Names = {n1, n2, n3}
    Devices = {d1}
    Polls = {p1}
    Approvals = {a1}
    NoName = NoName
    NoUser = NoUser
    NoRepo = NoRepo
    NoDevice = NoDevice
    StartRepos <- RebacAndManual
    Ttl = 1
    MaxClock = 1
    MaxTokens = 5
    MaxEvents = 4
INVARIANTS
    DirWellFormed
    FreshlyAuthorized
    RebacTokenForRequested
PROPERTIES
    ApprovedByWriter
    PollsAnswered
    ApprovedIsRedeemed
CHECK_DEADLOCK FALSE
