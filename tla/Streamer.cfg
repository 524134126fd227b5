SPECIFICATION FairSpec
CONSTANTS
    Clients = {c1, c2}
    Size = 4
    ChunkSize = 2
    HeaderLen = 2
    Lengths = {0, 1}
    MaxParts = 2
    Byte <- MCByte
    Unset = Unset
INVARIANTS
    RoomKept
    WholeParts
    ClientFreedLast
    StreamerFreedLast
PROPERTIES
    ImplementsByteStream
    DeletionCompletes
CHECK_DEADLOCK FALSE
