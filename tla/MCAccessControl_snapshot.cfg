SPECIFICATION Spec
CONSTANTS
    n1 = n1
    Users = {u1}
    Groups = {g1, g2}
    Repos = {r1}
    Names = {n1, n2}
    Roles = {"writer"}
    Actions = {"write"}
    Server = server
    Actors = {server, authctl}
    NoName = NoName
    NoOp = NoOp
    NoUser = NoUser
    NoRepo = NoRepo
    StartRepos <- AnyRepo
    StartTables <- AnyGraph
    MaxDepth = 1
    MaxCommits = 2
SYMMETRY Symmetric
INVARIANTS
    TypeOK
    OneWriteHarmless
    Acyclic
    AuditTellsAll
PROPERTY
    ImplementsDirectory
CHECK_DEADLOCK FALSE
