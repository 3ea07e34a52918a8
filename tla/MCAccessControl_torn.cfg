SPECIFICATION Spec
CONSTANTS
    n1 = n1
    Users = {u1}
    Groups = {g1}
    Repos = {r1}
    Names = {n1}
    Roles = {"writer"}
    Actions = {"write"}
    Server = server
    Actors = {server, authctl}
    NoName = NoName
    NoOp = NoOp
    NoUser = NoUser
    NoRepo = NoRepo
    StartRepos <- LiveRepo
    StartTables <- Populated
    MaxDepth = 1
    MaxCommits = 2
INVARIANT
    SnapshotIsAMoment
CHECK_DEADLOCK FALSE
