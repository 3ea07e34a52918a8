SPECIFICATION Spec
CONSTANTS
    n1 = n1
    Users = {u1}
    Groups = {g1, g2, g3}
    Repos = {r1}
    Names = {n1}
    Roles = {"reader", "writer", "admin"}
    Actions = {}
    Server = server
    Actors = {server}
    NoName = NoName
    NoOp = NoOp
    NoUser = NoUser
    NoRepo = NoRepo
    StartRepos <- AnyRepo
    StartTables <- ThreeGrants
    MaxDepth = 1
    MaxCommits = 0
SYMMETRY Symmetric
INVARIANT
    AccessAgrees
CHECK_DEADLOCK FALSE
