SPECIFICATION FairSpec
CONSTANTS
    Hub = hub
    Links = {l1}
    Others = {x}
    Callers = {proxy}
    MaxAdds = 2
    MaxQueue = 1
    Listeners = {l1}
INVARIANTS
    AnswerReachesSender
    HubFreedLast
PROPERTIES
    AddLinkReturns
    HubDeletionCompletes
CHECK_DEADLOCK FALSE
