SPECIFICATION FairSpec
CONSTANTS
    n1 = n1
    n2 = n2
    c1 = c1
    c2 = c2
    c3 = c3
    Conns = {c1, c2, c3}
    Notes = {n1, n2}
    Note <- OneNote
    Slow = {c3}
    Leavers = {c3}
    DrainAt = {2}
INVARIANT PresenceComplete
PROPERTY NobodyStaysBehind
CHECK_DEADLOCK FALSE
