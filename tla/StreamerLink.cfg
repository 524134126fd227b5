CONSTANTS
    Parts <- MCParts
    ChunkSizes = {11, 40}
    RecvSizes = {13}
    MaxWire = 30
    MaxConns = 2
    MaxRemotes = 2
    ULLONG_MAX = 100000
    HTTP_MAX_HEADER_SIZE = 100
SPECIFICATION Spec
INVARIANTS PartsIntact ReaderHasSocket NoConnectionLeft
PROPERTY StopReturns
