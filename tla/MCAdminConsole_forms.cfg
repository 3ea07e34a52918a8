SPECIFICATION Spec
CONSTANTS
    Users = {admin1, admin2, user1}
    Admins = {admin1, admin2}
    Cookies = {c1, c2}
    CsrfTokens = {t1, t2}
    Requests = {q1, q2}
    SessionTtl = 1
    CsrfTtl = 1
    NoUser = NoUser
    NoCookie = NoCookie
    NoToken = NoToken
    MaxClock = 1
    MaxEvents = 1
SYMMETRY Symmetric
INVARIANTS
    TypeOK
    TokenSpentOnce
PROPERTIES
    AdminLostOnlyByRace
    LogoutIsFinal
CHECK_DEADLOCK FALSE
