SPECIFICATION Spec
CONSTANTS
    Nodes = {a, b}
    Ids = {regId, i1, i2}
    Names = {regName}
    Topics = {regTopic, t}
    Addrs = {Addr0, regAddr, p1, p2}
    Addr0 = Addr0
    NoAddr = NoAddr
    regId = regId
    regName = regName
    regTopic = regTopic
    regAddr = regAddr
    RegistryEntry <- MCRegistryEntry
    Families = {{"streamer", "streamerlink"}, {"service"}}
SYMMETRY MCSymmetry
INVARIANTS
    NoDanglingEndpoint
    OwnEntryKept
    RegistryFollows
    Agreement
CHECK_DEADLOCK FALSE
