SPECIFICATION Spec
CONSTANTS
    s3 = s3
    s4 = s4
    g = g
    dom = dom
    Users = {u1}
    Emails = {e1}
    Providers = {g, h}
    Subjects = {s1, s2, s3, s4}
    ProviderOf <- TwoAtG
    Bindable <- BindAll
    Hosted <- OneHosted
    HostedDomains <- HostedAtH
    NoPersonal = {}
    NoDomain = NoDomain
    NoUser = NoUser
    NoEmail = NoEmail
    NoProvider = NoProvider
    NoSubject = NoSubject
    Kids = {k1, k2}
    Dirs = {d1, d2}
    Procs = {p1, p2}
    ActiveKid = NoKid
    NoKid = NoKid
    NoDir = NoDir
    MaxKeys = 2
    Repos = {r1, r2}
    NoRepo = NoRepo
    Calls = {c1}
    SharedAudience = TRUE
    AuthnTtl = 1
    AuthzTtl = 1
    MaxClock = 1
    MaxTokens = 2
    MaxEvents = 2
SYMMETRY Symmetric
INVARIANTS
    TypeOK
    BoundByInvitation
    RegisteredKeyOnDisk
    SignedByRegisteredKey
    AnswerWasTrue
    ExchangedInTime
PROPERTY
    DisableHolds
CHECK_DEADLOCK FALSE
