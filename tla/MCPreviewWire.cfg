SPECIFICATION Spec
CONSTANTS
    Cont = 4
    Groups = 3
    LastGroup = 2
    MaxByte = 7
    Max16 = 33
    MaxSeq = 2
    MaxInkPoints = 3
    Magic = 203
    Version = 1
    Absent = Absent
    Drawable <- Previews
    Numbering <- Numbers3
    MessageId <- MessageName
    SessionId <- Session
    Channel <- Note
    ActorId <- User
    Origin <- Connection
    JSONLen = 80
    MaxFramePrefix = 25
    MaxDatagram = 66
    Batch = 2
    MaxDrawn = 3
INVARIANTS ShownAsDrawn BatchKeepsAll FramesWhole SelfDelimiting
CHECK_DEADLOCK FALSE
