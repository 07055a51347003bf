SPECIFICATION FairSpec
CONSTANTS
    cursor = cursor
    stroke = stroke
    p1 = p1
    p2 = p2
    Senders = {s1, j1}
    Lenient = {j1}
    Cap = 2
    Keys = {cursor, stroke, p1, p2}
    InkKeys = {stroke, p1, p2}
    DeltaKeys = {p1, p2}
    MaxEphemeral = 2
    Batch = 2
    Loads <- Mixed
INVARIANT ReliableAccounted
INVARIANT WakeNotLost
INVARIANT EphemeralCoherent
INVARIANT DropsAccounted
INVARIANT LatestShown
PROPERTY FlushSeesWrites
PROPERTY AcceptedIsWritten
CHECK_DEADLOCK FALSE
