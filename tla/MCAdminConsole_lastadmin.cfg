SPECIFICATION Spec
CONSTANTS
    Users = {admin1, admin2}
    Admins = {admin1, admin2}
    Cookies = {c1, c2}
    CsrfTokens = {t1, t2}
    Requests = {q1, q2}
    SessionTtl = 1
    CsrfTtl = 1
    NoUser = NoUser
    NoCookie = NoCookie
    NoToken = NoToken
    MaxClock = 0
    MaxEvents = 0
PROPERTY
    LastAdminStays
CHECK_DEADLOCK FALSE
