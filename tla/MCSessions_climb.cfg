SPECIFICATION Spec
CONSTANTS
    s1 = s1
    s2 = s2
    u1 = u1
    k1 = k1
    k2 = k2
    k3 = k3
    k4 = k4
    c1 = c1
    c2 = c2
    Users = {u1}
    Who <- OneUser
    Sids = {s1}
    Calls = {k1, k3}
    Mixes <- AndOneUpdate
    Conns = {c1}
    About <- OneSession
    Perms = {1, 3}
    Expiries = {1}
    Leeway = 0
    TicketTTL = 1
    IdleTimeout = 1
    TouchInterval = 1
    Lag = 0
    MaxClock = 0
PROPERTY RefreshNeverRaises
CHECK_DEADLOCK FALSE
