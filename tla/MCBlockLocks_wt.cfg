SPECIFICATION FairSpec
CONSTANTS
    a1 = a1
    b1 = b1
    sa = sa
    sb = sb
    ra1 = ra1
    ra2 = ra2
    rb1 = rb1
    n1 = n1
    NoLock = NoLock
    Notes = {n1}
    Sessions = {sa, sb}
    Conns = {a1}
    Session <- SessionWT
    Note <- NoteWT
    Readers = {ra1, ra2}
    ReaderConn <- ReaderWT
    WebTransport = {a1}
    Blocks = {x1}
    LockIds = {i1}
    LeaseTime = 1
    MaxPerSession = 1
    MaxClock = 3
    MayDrain = TRUE
    Verbs = {"request", "renew"}
PROPERTY DepartedReleased
CHECK_DEADLOCK FALSE
