SPECIFICATION FairSpec
CONSTANTS
    Links = {c1, c2, c3}
    App = app
    MaxCasts = 2
INVARIANTS
    LinkFreedLast
    HubFreedLast
PROPERTIES
    HubDeletionCompletes
CHECK_DEADLOCK FALSE
