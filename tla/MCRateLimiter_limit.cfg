SPECIFICATION Spec
CONSTANTS
    Peers = {p1, p2}
    Requests = {q1, q2}
    Limit = 2
    Window = 2
    MaxWait = 1
    MaxClock = 4
    NoPeer = NoPeer
SYMMETRY Symmetric
INVARIANT
    BurstBound
PROPERTY
    OnlyBusyRefused
CHECK_DEADLOCK FALSE
