SPECIFICATION SpecNoFault
CONSTANTS
    Nodes = {a, b}
    Ids = {regId, i1, i2}
    Names = {regName}
    Topics = {regTopic, t}
    Addrs = {Addr0, regAddr, p1, p2, p3}
    Addr0 = Addr0
    NoAddr = NoAddr
    regId = regId
    regName = regName
    regTopic = regTopic
    regAddr = regAddr
    RegistryEntry <- MCRegistryEntry
    Families = {{"datahub", "datalink"}, {"messagehub", "messagelink"}}
SYMMETRY MCSymmetry
INVARIANTS
    ConnectedToPeers
    AddressAgreement
    LinksFindHub
    HubFindsLinks
CHECK_DEADLOCK FALSE
