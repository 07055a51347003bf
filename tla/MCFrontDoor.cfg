SPECIFICATION Spec
CONSTANTS
    w1 = w1  w2 = w2  r1 = r1  p1 = p1  p2 = p2  n1 = n1  u1 = u1  nobody = nobody
    i1 = i1  a1 = a1  ink = ink  h1 = h1  h2 = h2
    MaxClock = 5
    Requests <- SignedRequests
    KeyIds = {"current", "previous"}
    MaxSkew = 1
    PermitIds = {p1, p2}
    PermitLife = 4
    Capacity = 1
    AllUsers = nobody
    Workers = {w1, w2}
    Readers = {r1}
    ReaderNote <- NoteOfReader
    ReaderUser <- UserOfReader
    Editors = {r1}
    None = None
    IPs = {i1}
    Users = {a1}
    Classes = {ink}
    Limited = {i1, a1, ink}
    Cost <- TokenCost
    Burst <- BucketBurst
    SweepEvery = 2
    MaxLag = 1
    Handlers = {h1, h2}
    NoBucket = NoBucket
    Sources = {"datagrams", "stream"}
    IdleTimeout = 2
    MarkLag = 1
SYMMETRY Alike
INVARIANTS TypeOK RevokedStaysRevoked BurstBound
PROPERTIES ReplayRejected BusyNotReaped
CHECK_DEADLOCK FALSE
