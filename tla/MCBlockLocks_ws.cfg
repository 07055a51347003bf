SPECIFICATION Spec
CONSTANTS
    a1 = a1
    b1 = b1
    sa = sa
    sb = sb
    ra1 = ra1
    ra2 = ra2
    rb1 = rb1
    n1 = n1
    NoLock = NoLock
    Notes = {n1}
    Sessions = {sa, sb}
    Conns = {a1, b1}
    Session <- SessionPair
    Note <- NotePair
    Readers = {ra1, rb1}
    ReaderConn <- ReaderPair
    WebTransport = {}
    Blocks = {x1, x2}
    LockIds = {i1}
    LeaseTime = 2
    MaxPerSession = 1
    MaxClock = 4
    MayDrain = FALSE
    Verbs = {"request", "renew", "release", "transform"}
SYMMETRY Alike
INVARIANT TypeOK
INVARIANT GoneHoldsNothing
INVARIANT CounterExact
INVARIANT CeilingHeld
INVARIANT BeliefSound
INVARIANT OnlyRacesOverlap
PROPERTY LiveLeaseKept
PROPERTY ImplementsLeases
CHECK_DEADLOCK FALSE
