SPECIFICATION Spec
CONSTANTS
    alice = alice
    bob = bob
    dora = dora
    ra = ra
    rb = rb
    n1 = n1
    n2 = n2
    p1 = p1
    p2 = p2
    Nothing = Nothing
    Conns = {alice, bob, dora}
    Notes = {n1, n2}
    Note <- NoteOf
    Readers = {ra, rb}
    ReaderConn <- ReaderOf
    WebTransport = {}
    Drawers = {alice}
    Slow = {bob}
    Pages = {p1, p2}
    Viewports <- Views
    Inbox <- Sent
    GridCellSize = 2
    MaxWebRTCPeers = 2
    MaxFrames = 2
INVARIANT TypeOK
INVARIANT IndexInStep
INVARIANT ScreenIsCovered
INVARIANT ReliableReachesAll
INVARIANT ScopedDelivery
INVARIANT InkBegins
INVARIANT GoneHasNoInterest
CHECK_DEADLOCK FALSE
