SPECIFICATION FairSpec
CONSTANTS
    Users = {u1, u2}
    Sessions = {s1}
    States = {x1, x2}
    Polls = {p1, p2}
    Callbacks = {k1, k2}
    Pkce = TRUE
    SessionTtl = 1
    StateTtl = 1
    NoUser = NoUser
    NoSession = NoSession
    NoState = NoState
    MaxClock = 1
    MaxTokens = 2
    MaxEvents = 1
INVARIANTS
    TypeOK
    TokenForCompleter
    ReleasedInTime
    FreshAccount
    CompletedByItsLogin
    OneCallbackPerState
    VerifierKept
PROPERTIES
    ImplementsGrant
    CompletedIsRedeemed
CHECK_DEADLOCK FALSE
