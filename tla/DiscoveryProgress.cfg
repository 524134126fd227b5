SPECIFICATION FairSpec
CONSTANTS
    Nodes = {a, b}
    Ids = {regId, i1}
    Names = {regName}
    Topics = {regTopic, t}
    Addrs = {Addr0, regAddr, p1}
    Addr0 = Addr0
    NoAddr = NoAddr
    regId = regId
    regName = regName
    regTopic = regTopic
    regAddr = regAddr
    RegistryEntry <- MCRegistryEntry
    Families = {{"datahub"}}
PROPERTIES
    ProxyBecomesReady
    ProxyCatchesUp
CHECK_DEADLOCK FALSE
