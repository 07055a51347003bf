SPECIFICATION Spec
CONSTANTS
    n1 = n1
    n2 = n2
    c1 = c1
    c2 = c2
    c3 = c3
    Conns = {c1, c2}
    Notes = {n1, n2}
    Note <- OneNote
    Slow = {}
    Leavers = {c1, c2}
    DrainAt = {0, 1, 2}
INVARIANT NoUnannouncedMember
CHECK_DEADLOCK FALSE
