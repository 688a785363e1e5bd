SPECIFICATION FairClientSpec
CONSTANTS
    Fds = {3}
    Ports <- MCPorts
    PortMapperPort = 1
    Listening <- MCListening
    Requests <- MCRequests
    Statuses = {"SUCCESS", "FAILED", "UNKNOWN", "VERIFIED"}
    Values <- MCValues
    Faults = {"resolve", "socket", "refuse", "interrupt", "close", "reset"}
    FalseSizes = {0, 20}
    MaxSent = 6
    Ops <- MCOps
    Seeds <- MCSeeds
    XidModulus = 18
    MaxCalls = 9
    Script <- MainScript
    MountService = 2
    NfsService = 3
    Handles = {h1}
    Denied = denied
    Void = void
    Export = "/default"
    ServerFaults = {"unregistered", "verify"}
INVARIANTS ClientTypeOK
PROPERTIES LearnsServersPorts Termination
