SPECIFICATION Spec
CONSTANTS
    Users = {u1, u2}
    r1 = r1
    r2 = r2
    n1 = n1
    n2 = n2
    Repos = {r1}
    Names = {n1}
    Devices = {d1}
    Polls = {p1, p2}
    Approvals = {a1, a2}
    NoName = NoName
    NoUser = NoUser
    NoRepo = NoRepo
    NoDevice = NoDevice
    StartRepos <- OneRepo
    Ttl = 1
    MaxClock = 1
    MaxTokens = 3
    MaxEvents = 1
SYMMETRY Symmetric
INVARIANTS
    TypeOK
    AtMostOneRelease
    ReleasedToApprover
    ReleasedIsRecorded
PROPERTIES
    ApproverStable
    ImplementsGrant
CHECK_DEADLOCK FALSE
