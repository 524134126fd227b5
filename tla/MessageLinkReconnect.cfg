SPECIFICATION FairSpec
CONSTANTS
    MaxConns = 2
    MaxTexts = 0
    Quitters = {}
    Stoppers = {1}
INVARIANTS
    OneClose
    NoSocketLeft
PROPERTY
    LinkDeletionCompletes
CHECK_DEADLOCK FALSE
