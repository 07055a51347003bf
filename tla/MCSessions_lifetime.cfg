SPECIFICATION FairSpec
CONSTANTS
    s1 = s1
    s2 = s2
    u1 = u1
    k1 = k1
    k2 = k2
    k3 = k3
    k4 = k4
    c1 = c1
    c2 = c2
    Users = {u1}
    Who <- OneUser
    Sids = {s1}
    Calls = {k1, k2}
    Mixes <- TwoBootstraps
    Conns = {c1, c2}
    About <- OneSession
    Perms = {3}
    Expiries = {2, 4}
    Leeway = 1
    TicketTTL = 2
    IdleTimeout = 3
    TouchInterval = 2
    Lag = 1
    MaxClock = 6
INVARIANT BusyIsNotIdle
PROPERTY NothingLeaks
CHECK_DEADLOCK FALSE
