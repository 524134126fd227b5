CONSTANTS
    Registry = "registry"
    Nodes <- MCNodes
    Disabled = {"disabled"}
    MaxFaults = 2
    MaxSignals = 4
SPECIFICATION LaunchSpec
INVARIANT NoOrphans
PROPERTIES AskedFirst StopEnds Restarted
CHECK_DEADLOCK FALSE
