SPECIFICATION FairSpec
CONSTANTS
    MaxConns = 1
    MaxTexts = 2
    Quitters = {0, 1}
    Stoppers = {0, 1}
PROPERTY
    BothEndsClose
CHECK_DEADLOCK FALSE
